---- MODULE Spec2Model ----
(***************************************************************************)
(* Sales / inventory / warranty backend.                                   *)
(*                                                                         *)
(* The model covers the sale transaction (createSale), the warranty date   *)
(* arithmetic (calculateWarrantyDates / calculateWarrantyEnd), the image   *)
(* attachment (uploadSaleImages), the serial extraction (extractSerial),   *)
(* the customer deletion (deleteCustomer), the product administration      *)
(* (createProduct, updateProduct, deleteProduct, adjustStock) and the      *)
(* warranty queries, together with the part of the PostgreSQL store they   *)
(* rely on: READ COMMITTED transactions, the row lock taken by UPDATE, and *)
(* the constraints declared by the schema; then the authentication         *)
(* (register, login, refresh, logout, changePassword), the sales report    *)
(* and statistics, and the shutdown of the process.                        *)
(***************************************************************************)
EXTENDS Integers, Sequences, FiniteSets, TLC

(***************************************************************************)
(* Bounds of the model.                                                    *)
(***************************************************************************)
BaseYear == 2023
NumYears == 2
MaxStock == 3
MaxQty == 2
NumSaleReqs == 2
NumSerialReqs == 3
NumUploadReqs == 1
NumDeleteCustomerReqs == 2
MaxTicks == 1
MaxSessions == 2
MaxWeeks == 1
MaxConnections == 3
MaxSignals == 3

(***************************************************************************)
(* Program constants.                                                      *)
(***************************************************************************)
MaxWarrantyMonths == 120
MinWarrantyMonths == 1
MaxImagesPerRequest == 3
HoursPerDay == 24
DefaultDaysThreshold == 30
ExpiringSoonDays == 30
MinDaysThreshold == 1
RefreshLifetime == 604800
AccessLifetime == 900

None == "none"

(***************************************************************************)
(* Calendar dates.  A date is a record [y, m, d] with m in 1..12; the      *)
(* handlers use the local calendar date of a JavaScript Date, and the      *)
(* DATE columns of the schema keep exactly that.                           *)
(***************************************************************************)
IsLeap(y) == (y % 4 = 0 /\ y % 100 # 0) \/ y % 400 = 0

DaysInMonth(y, m) ==
  IF m = 2 THEN (IF IsLeap(y) THEN 29 ELSE 28)
  ELSE IF m \in {4, 6, 9, 11} THEN 30 ELSE 31

Years == BaseYear .. (BaseYear + NumYears - 1)

Dates == { dt \in [y : Years, m : 1..12, d : 1..31] : dt.d <= DaysInMonth(dt.y, dt.m) }

\* Order-preserving number of a date (Date.getTime() compared at day resolution).
DateNum(dt) == dt.y * 10000 + dt.m * 100 + dt.d

\* Date.prototype.setMonth(getMonth() + months): the month index is carried
\* into the year, and a day that does not exist in the target month
\* overflows into the following month (Jan 31 + 1 month = Mar 2 or Mar 3).
SetMonth(dt, months) ==
  LET total == (dt.m - 1) + months
      yy    == dt.y + (total \div 12)
      mm    == (total % 12) + 1
      dim   == DaysInMonth(yy, mm)
  IN  IF dt.d <= dim
        THEN [y |-> yy, m |-> mm, d |-> dt.d]
        ELSE [y |-> yy, m |-> mm + 1, d |-> dt.d - dim]

\* The calendar-month advance the specification describes: the day of the
\* month is kept when the target month has it, else the last day of it.
AddMonthsClamped(dt, months) ==
  LET total == (dt.m - 1) + months
      yy    == dt.y + (total \div 12)
      mm    == (total % 12) + 1
      dim   == DaysInMonth(yy, mm)
  IN  [y |-> yy, m |-> mm, d |-> IF dt.d <= dim THEN dt.d ELSE dim]

calculateWarrantyEndNoAdvance(startDate, months) == startDate

calculateWarrantyEnd(startDate, months) == SetMonth(startDate, months)

calculateWarrantyDates(saleDate, warrantyPeriodMonths) ==
  [warrantyStart |-> saleDate,
   warrantyEnd   |-> calculateWarrantyEnd(saleDate, warrantyPeriodMonths)]

(***************************************************************************)
(* Identifiers.  p1 is an active product, p2 a deactivated one, p3 an id   *)
(* that resolves to no row; c1 is a customer, c2 an id of no customer.     *)
(***************************************************************************)
ProductIds == {"p1", "p2", "p3"}
CustomerIds == {"c1", "c2"}
SellerIds == {"u1"}
SaleReqs == 1 .. NumSaleReqs
SerialReqs == 1 .. NumSerialReqs
UploadReqs == 1 .. NumUploadReqs
DeleteCustomerReqs == 1 .. NumDeleteCustomerReqs
\* The administrative requests on products that run beside each other.
AdminReqs == {"a1", "a2"}

\* Amounts are in cents (DECIMAL(10, 2)).
\* The remaining fields of a createSale body: unit_price, warranty_period_months
\* and the optional serial_number ("" when absent).
SaleTerms ==
  {[unit_price |-> 250, warranty_period_months |-> MinWarrantyMonths, serial_number |-> ""],
   [unit_price |-> 10000, warranty_period_months |-> 12, serial_number |-> "SN-A"]}
SaleDates == {[y |-> 2024, m |-> 1, d |-> 15], [y |-> 2024, m |-> 1, d |-> 31]}
ImageTypes == {"sealed", "full_product", "serial_number"}

VARIABLES
  products,     \* table products: id -> [exists, is_active, stock, sku]
  customers,    \* table customers: the ids that have a row
  sales,        \* table sales: the committed rows
  sale_images,  \* table sale_images: the committed rows
  rowLock,      \* products row lock: id -> the transaction holding it, or 0
  today,        \* the calendar date new Date() gives
  cs,           \* createSale requests: request -> control state and locals
  ex,           \* extractSerial requests: request -> control state and locals
  exOverlap,    \* history: the sales two extractSerial requests overlapped on
  exFinished,   \* history: the extractSerial requests answered 200, in order
  up,           \* uploadSaleImages requests: request -> control state and locals
  stock0,       \* history: the stock every product started with
  decremented,  \* history: the requests whose stock UPDATE has been committed
  wDate, wMonths, wOut, \* an evaluation of calculateWarrantyDates
  dc,           \* deleteCustomer requests: request -> control state and locals
  pa,           \* product administration requests: request -> control state and locals
  nowHour,      \* the local hour of the day new Date() gives
  utcOffset,    \* the time zone of the process: hours east of UTC
  wq,           \* the answers of the queries evaluated so far
  users,        \* table users: id -> [exists, password, role, is_active]
  refresh_tokens, \* table refresh_tokens: the committed rows
  clock,        \* the time in seconds Date.now() and NOW() give
  cookies,      \* the refresh tokens handed to clients in the refreshToken cookie
  revoked,      \* history: the refresh tokens a finished logout or password change covered
  au,           \* authentication requests: request -> control state and locals
  server,       \* the HTTP server: "listening", "closing" or "closed"
  connections,  \* the number of open HTTP connections with a request in flight
  pool,         \* the connection pool: "open" or "ended"
  signals,      \* the number of SIGTERM / SIGINT signals delivered
  closeCallbacks, \* the callbacks given to server.close(), each with its position
  forceTimers,  \* the forced-exit timers armed and not yet fired
  clients,      \* the number of pool clients checked out by requests
  exitCode      \* "exit(0)" or "exit(1)" once the process has exited, None while it runs

vars == <<products, customers, sales, sale_images, rowLock, today, cs, ex, exOverlap,
          exFinished, up, stock0, decremented, wDate, wMonths, wOut,
          dc, pa, nowHour, utcOffset, wq,
          users, refresh_tokens, clock, cookies, revoked, au,
          server, connections, pool, signals, closeCallbacks, forceTimers, clients, exitCode>>

exVars == <<ex, exOverlap, exFinished>>
upVars == <<up>>

dbVars == <<products, customers, sales, sale_images, rowLock, stock0, decremented>>
warrantyVars == <<wDate, wMonths, wOut>>
adminVars == <<dc, pa>>
queryVars == <<nowHour, utcOffset, wq>>
authVars == <<users, refresh_tokens, clock, cookies, revoked, au>>
processVars == <<server, connections, pool, signals, closeCallbacks, forceTimers, clients, exitCode>>

(***************************************************************************)
(* Errors (middleware/errorHandler.ts).  An absent statusCode is 0, an     *)
(* absent code is None; isOperational absent counts as FALSE, as in        *)
(* `!error.isOperational`.                                                 *)
(***************************************************************************)
Msg(text, a, b) == [text |-> text, a |-> a, b |-> b]

CustomError(name, message, statusCode) ==
  [name |-> name, message |-> message, statusCode |-> statusCode,
   isOperational |-> TRUE, code |-> None]

NotFoundError(resource) == CustomError("NotFoundError", Msg(resource, 0, 0), 404)
ValidationError(message) == CustomError("ValidationError", message, 400)
ConflictError(message) == CustomError("ConflictError", message, 409)
DatabaseError(message) == CustomError("DatabaseError", message, 500)

\* An error raised by the pg driver: SQLSTATE in `code`, no statusCode.
PgError(code) ==
  [name |-> "error", message |-> Msg("pg", 0, 0), statusCode |-> 0,
   isOperational |-> FALSE, code |-> code]

NoError == [name |-> None, message |-> Msg("", 0, 0), statusCode |-> 0,
            isOperational |-> FALSE, code |-> None]

CheckViolation == "23514"
ForeignKeyViolation == "23503"
UniqueViolation == "23505"
NotNullViolation == "23502"
ConnectionFailure == "08006"

\* The switch on the SQLSTATE code, with check_violation left to the default.
PgErrorToAppErrorNoCheckCase(code) ==
  IF code = UniqueViolation THEN ConflictError(Msg("Ya existe un recurso con esos datos", 0, 0))
  ELSE IF code = ForeignKeyViolation THEN ValidationError(Msg("Referencias a datos inexistentes", 0, 0))
  ELSE IF code = NotNullViolation THEN ValidationError(Msg("Faltan campos requeridos", 0, 0))
  ELSE DatabaseError(Msg("Error en la base de datos", 0, 0))

PgErrorToAppError(code) ==
  IF code = UniqueViolation THEN ConflictError(Msg("Ya existe un recurso con esos datos", 0, 0))
  ELSE IF code = ForeignKeyViolation THEN ValidationError(Msg("Referencias a datos inexistentes", 0, 0))
  ELSE IF code = NotNullViolation THEN ValidationError(Msg("Faltan campos requeridos", 0, 0))
  ELSE IF code = CheckViolation THEN ValidationError(Msg("Datos no cumplen las restricciones", 0, 0))
  ELSE DatabaseError(Msg("Error en la base de datos", 0, 0))

\* errorHandler: the response [status, error] an error thrown by a handler gets.
errorHandler(err) ==
  LET e1 == IF err.code # None THEN PgErrorToAppError(err.code) ELSE err
      e2 == IF ~e1.isOperational
              THEN [e1 EXCEPT !.statusCode = 500,
                              !.message = Msg("Error interno del servidor", 0, 0)]
              ELSE e1
  IN  [status |-> IF e2.statusCode # 0 THEN e2.statusCode ELSE 500,
       success |-> FALSE, error |-> e2.message, name |-> e2.name]

NoResponse == [status |-> 0, success |-> FALSE, error |-> Msg("", 0, 0), name |-> None]
Created == [status |-> 201, success |-> TRUE, error |-> Msg("", 0, 0), name |-> None]
Ok == [status |-> 200, success |-> TRUE, error |-> Msg("", 0, 0), name |-> None]

\* A plain Error (no statusCode, no code): a pool or connection failure.
PlainError == [name |-> "Error", message |-> Msg("connection", 0, 0), statusCode |-> 0,
               isOperational |-> FALSE, code |-> None]

(***************************************************************************)
(* The schema (database/init.ts).                                          *)
(***************************************************************************)
\* products.stock without its CHECK constraint.
ProductsStockCheckAbsent(stock) == TRUE

\* products: stock INTEGER DEFAULT 0 CHECK (stock >= 0)
ProductsStockCheck(stock) == stock >= 0

\* sales: the CHECK constraints of the row
SalesRowChecks(row) ==
  /\ row.quantity > 0
  /\ row.unit_price > 0
  /\ row.total_price > 0
  /\ row.warranty_period_months > 0

\* sales: the foreign keys to products and customers
SalesForeignKeys(row) ==
  /\ products[row.product_id].exists
  /\ row.customer_id \in customers

(***************************************************************************)
(* createSale (controllers/saleController.ts).  One action per awaited     *)
(* call; the synchronous code after an await belongs to its action.        *)
(***************************************************************************)
CsIdle ==
  [pc |-> "idle", product_id |-> None, customer_id |-> None, quantity |-> 0,
   unit_price |-> 0, warranty_period_months |-> 0, serial_number |-> "",
   seller_id |-> None, stockRead |-> 0, pendingSale |-> {}, pendingStock |-> {},
   err |-> NoError, resp |-> NoResponse, log |-> <<>>]

\* The statements of a transaction that may still fail for lack of a connection.
CsQueryPcs == {"begin", "selProduct", "selCustomer", "insert", "update", "commit"}

Throw(r, e) == cs' = [cs EXCEPT ![r].err = e, ![r].pc = "rollback"]

\* The request arrives and awaits getClient(); the pool hands out a connection.
\* A field of the request (body, authenticated user) is drawn where the
\* handler first uses it.
CsGetClient(r) ==
  /\ cs[r].pc = "idle"
  /\ cs' = [cs EXCEPT ![r].pc = "begin", ![r].log = <<"connect">>]
  /\ UNCHANGED <<dbVars, today, exVars, upVars, warrantyVars, adminVars, queryVars, authVars, processVars>>

\* getClient() rejects: nothing was acquired, the error goes to errorHandler.
CsGetClientFails(r) ==
  /\ cs[r].pc = "idle"
  /\ cs' = [cs EXCEPT ![r].pc = "done", ![r].err = PlainError,
                      ![r].resp = errorHandler(PlainError)]
  /\ UNCHANGED <<dbVars, today, exVars, upVars, warrantyVars, adminVars, queryVars, authVars, processVars>>

\* BEGIN, then the seller check on (req as any).user?.userId.
CsBegin(r) ==
  /\ cs[r].pc = "begin"
  /\ \E u \in SellerIds \cup {None} :
       IF u = None
         THEN Throw(r, ValidationError(Msg("Vendedor no identificado", 0, 0)))
         ELSE cs' = [cs EXCEPT ![r].pc = "selProduct", ![r].seller_id = u]
  /\ UNCHANGED <<dbVars, today, exVars, upVars, warrantyVars, adminVars, queryVars, authVars, processVars>>

\* SELECT name, stock, price FROM products WHERE id = $1 AND is_active = true,
\* then the stock check on the row that was read.
CsSelectProduct(r) ==
  /\ cs[r].pc = "selProduct"
  /\ \E p \in ProductIds, q \in 1..MaxQty :
       LET row == products[p]
       IN  IF ~(row.exists /\ row.is_active)
             THEN cs' = [cs EXCEPT ![r].product_id = p, ![r].pc = "rollback",
                           ![r].err = NotFoundError("Producto no encontrado o inactivo")]
             ELSE IF row.stock < q
               THEN cs' = [cs EXCEPT ![r].product_id = p, ![r].quantity = q,
                             ![r].stockRead = row.stock, ![r].pc = "rollback",
                             ![r].err = ValidationError(Msg("Stock insuficiente", row.stock, q))]
               ELSE cs' = [cs EXCEPT ![r].product_id = p, ![r].quantity = q,
                             ![r].stockRead = row.stock, ![r].pc = "selCustomer"]
  /\ UNCHANGED <<dbVars, today, exVars, upVars, warrantyVars, adminVars, queryVars, authVars, processVars>>

\* SELECT id FROM customers WHERE id = $1; then total_price and the warranty
\* dates are computed from the body.
CsSelectCustomer(r) ==
  /\ cs[r].pc = "selCustomer"
  /\ \E c \in CustomerIds, t \in SaleTerms :
       IF c \notin customers
         THEN cs' = [cs EXCEPT ![r].customer_id = c, ![r].pc = "rollback",
                       ![r].err = NotFoundError("Cliente no encontrado")]
         ELSE cs' = [cs EXCEPT ![r].customer_id = c, ![r].unit_price = t.unit_price,
                       ![r].warranty_period_months = t.warranty_period_months,
                       ![r].serial_number = t.serial_number,
                       ![r].pc = "insert"]
  /\ UNCHANGED <<dbVars, today, exVars, upVars, warrantyVars, adminVars, queryVars, authVars, processVars>>

\* total_price = quantity * unit_price
TotalPrice(quantity, unit_price) == quantity * unit_price

\* The row createSale inserts: id, totals, warranty window, serial_number || null.
SaleRow(id, product_id, customer_id, seller_id, quantity, unit_price, months, serial, date) ==
  LET w == calculateWarrantyDates(date, months)
  IN  [id |-> id,
       product_id |-> product_id,
       customer_id |-> customer_id,
       seller_id |-> seller_id,
       quantity |-> quantity,
       unit_price |-> unit_price,
       total_price |-> TotalPrice(quantity, unit_price),
       sale_date |-> date,
       warranty_period_months |-> months,
       warranty_start |-> w.warrantyStart,
       warranty_end |-> w.warrantyEnd,
       serial_number |-> IF serial = "" THEN None ELSE serial]

NewSaleRow(r) ==
  SaleRow(r, cs[r].product_id, cs[r].customer_id, cs[r].seller_id, cs[r].quantity,
          cs[r].unit_price, cs[r].warranty_period_months, cs[r].serial_number, today)

\* The INSERT runs on the pool (autocommit) instead of on the transaction's client.
CsInsertSaleAutocommit(r) ==
  /\ cs[r].pc = "insert"
  /\ LET row == NewSaleRow(r)
     IN  IF ~SalesForeignKeys(row)
           THEN Throw(r, PgError(ForeignKeyViolation)) /\ UNCHANGED sales
         ELSE IF ~SalesRowChecks(row)
           THEN Throw(r, PgError(CheckViolation)) /\ UNCHANGED sales
         ELSE /\ cs' = [cs EXCEPT ![r].pc = "update"]
              /\ sales' = sales \cup {row}
  /\ UNCHANGED <<products, customers, sale_images, rowLock, stock0, decremented,
                 today, exVars, upVars, warrantyVars, adminVars, queryVars, authVars, processVars>>

\* INSERT INTO sales (...) RETURNING *, inside the transaction.
CsInsertSale(r) ==
  /\ cs[r].pc = "insert"
  /\ LET row == NewSaleRow(r)
     IN  IF ~SalesForeignKeys(row)
           THEN Throw(r, PgError(ForeignKeyViolation))
         ELSE IF ~SalesRowChecks(row)
           THEN Throw(r, PgError(CheckViolation))
         ELSE cs' = [cs EXCEPT ![r].pc = "update", ![r].pendingSale = {row}]
  /\ UNCHANGED <<dbVars, today, exVars, upVars, warrantyVars, adminVars, queryVars, authVars, processVars>>

\* UPDATE products SET stock = stock - $1 WHERE id = $2.  Under READ COMMITTED
\* the statement waits for the row lock and then works on the latest committed
\* version of the row; the CHECK constraint is evaluated on the new value.
CsUpdateStock(r) ==
  /\ cs[r].pc = "update"
  /\ LET p == cs[r].product_id
         newStock == products[p].stock - cs[r].quantity
     IN  /\ rowLock[p] \in {0, r}
         /\ IF ~ProductsStockCheck(newStock)
              THEN Throw(r, PgError(CheckViolation)) /\ UNCHANGED rowLock
              ELSE /\ cs' = [cs EXCEPT ![r].pc = "commit", ![r].pendingStock = {newStock}]
                   /\ rowLock' = [rowLock EXCEPT ![p] = r]
  /\ UNCHANGED <<products, customers, sales, sale_images, stock0, decremented,
                 today, exVars, upVars, warrantyVars, adminVars, queryVars, authVars, processVars>>

\* What ending a transaction does to the row locks it holds.
ReleaseLocks(r) == [p \in ProductIds |-> IF rowLock[p] = r THEN 0 ELSE rowLock[p]]

\* COMMIT: the write set becomes visible, the locks go; then the 201 response.
CsCommit(r) ==
  /\ cs[r].pc = "commit"
  /\ sales' = sales \cup cs[r].pendingSale
  /\ products' = IF cs[r].pendingStock = {} THEN products
                 ELSE [products EXCEPT ![cs[r].product_id].stock =
                          CHOOSE n \in cs[r].pendingStock : TRUE]
  /\ decremented' = IF cs[r].pendingStock = {} THEN decremented
                    ELSE decremented \cup {r}
  /\ rowLock' = ReleaseLocks(r)
  /\ cs' = [cs EXCEPT ![r].pc = "finally", ![r].pendingSale = {},
                      ![r].pendingStock = {}, ![r].resp = Created]
  /\ UNCHANGED <<customers, sale_images, stock0, today, exVars, upVars, warrantyVars, adminVars, queryVars, authVars, processVars>>

\* A statement of the transaction fails because the connection is gone.
CsQueryFails(r) ==
  /\ cs[r].pc \in CsQueryPcs
  /\ Throw(r, PgError(ConnectionFailure))
  /\ UNCHANGED <<dbVars, today, exVars, upVars, warrantyVars, adminVars, queryVars, authVars, processVars>>

\* The catch block without its ROLLBACK: the error is only rethrown.
CsRollbackOmitted(r) ==
  /\ cs[r].pc = "rollback"
  /\ cs' = [cs EXCEPT ![r].pc = "finally"]
  /\ UNCHANGED <<dbVars, today, exVars, upVars, warrantyVars, adminVars, queryVars, authVars, processVars>>

\* catch: await client.query('ROLLBACK'); throw error.
CsRollback(r) ==
  /\ cs[r].pc = "rollback"
  /\ rowLock' = ReleaseLocks(r)
  /\ cs' = [cs EXCEPT ![r].pc = "finally", ![r].pendingSale = {},
                      ![r].pendingStock = {},
                      ![r].log = Append(cs[r].log, "rollback")]
  /\ UNCHANGED <<products, customers, sales, sale_images, stock0, decremented,
                 today, exVars, upVars, warrantyVars, adminVars, queryVars, authVars, processVars>>

\* The ROLLBACK itself throws (connection lost): the server aborts the
\* transaction, the ROLLBACK's error replaces the first one.
CsRollbackFails(r) ==
  /\ cs[r].pc = "rollback"
  /\ rowLock' = ReleaseLocks(r)
  /\ cs' = [cs EXCEPT ![r].pc = "finally", ![r].pendingSale = {},
                      ![r].pendingStock = {}, ![r].err = PgError(ConnectionFailure),
                      ![r].log = Append(cs[r].log, "rollback")]
  /\ UNCHANGED <<products, customers, sales, sale_images, stock0, decremented,
                 today, exVars, upVars, warrantyVars, adminVars, queryVars, authVars, processVars>>

\* finally: client.release(); a thrown error reaches errorHandler.  The
\* handler returns: of its locals the request keeps the product and the
\* quantity it asked for, the error and the response.
CsRelease(r) ==
  /\ cs[r].pc = "finally"
  /\ cs' = [cs EXCEPT ![r] = [CsIdle EXCEPT
                !.pc = "done",
                !.product_id = cs[r].product_id,
                !.quantity = cs[r].quantity,
                !.err = cs[r].err,
                !.log = Append(cs[r].log, "release"),
                !.resp = IF cs[r].err = NoError THEN cs[r].resp
                         ELSE errorHandler(cs[r].err)]]
  /\ UNCHANGED <<dbVars, today, exVars, upVars, warrantyVars, adminVars, queryVars, authVars, processVars>>

(***************************************************************************)
(* Specification of the sale transaction: concurrent createSale requests.  *)
(***************************************************************************)
NoProduct == [exists |-> FALSE, is_active |-> FALSE, stock |-> 0, sku |-> None]

InitProducts(n) ==
  [p \in ProductIds |->
     IF p = "p1" THEN [exists |-> TRUE, is_active |-> TRUE, stock |-> n, sku |-> "SKU-1"]
     ELSE IF p = "p2" THEN [exists |-> TRUE, is_active |-> FALSE, stock |-> MaxStock,
                            sku |-> "SKU-2"]
     ELSE NoProduct]

ExIdle == [pc |-> "idle", sale_id |-> 0, serialRead |-> None, extracted |-> None,
           resp |-> NoResponse]
UpIdle == [pc |-> "idle", sale_id |-> 0, types |-> <<>>, inserted |-> {},
           resp |-> NoResponse]
DcIdle == [pc |-> "idle", id |-> None, salesCount |-> 0, resp |-> NoResponse]
\* A request body: an absent field is the empty set, a given one holds its value.
NoBody == [sku |-> {}, stock |-> {}, is_active |-> {}]
PaIdle == [op |-> None, pc |-> "idle", id |-> None, body |-> NoBody, adjustment |-> 0,
           newStock |-> 0, resp |-> NoResponse]

\* The users that may exist and the passwords they may choose.  The
\* authentication requests are served one after the other: at most
\* MaxSessions refresh tokens are handed out.
UserIds == {"u1", "u2"}
Passwords == {"pw-a", "pw-b"}
AuthReqs == {"r1"}

\* No cookie / no Authorization header, and a string that is no signed token.
NoToken == [secret |-> None, userId |-> None, role |-> None, iat |-> 0, exp |-> 0]
Malformed == [secret |-> "garbage", userId |-> None, role |-> None, iat |-> 0, exp |-> 0]

NoUser == [exists |-> FALSE, password |-> None, role |-> None, is_active |-> FALSE]
AuIdle == [op |-> None, pc |-> "idle", user |-> None, password |-> None,
           token |-> NoToken, resp |-> NoResponse]

\* User u1 is registered, u2 is not; nobody is logged in.
InitAuth ==
  /\ users = [u \in UserIds |->
                IF u = "u1" THEN [exists |-> TRUE, password |-> "pw-a", role |-> "seller",
                                  is_active |-> TRUE]
                ELSE NoUser]
  /\ refresh_tokens = {}
  /\ clock = 0
  /\ cookies = {}
  /\ revoked = {}
  /\ au = [r \in AuthReqs |-> AuIdle]

\* The server listens, the pool is open, no signal has been delivered.
InitProcess ==
  /\ server = "listening"
  /\ connections = 0
  /\ pool = "open"
  /\ signals = 0
  /\ closeCallbacks = <<>>
  /\ forceTimers = 0
  /\ clients = 0
  /\ exitCode = None

InitRequests ==
  /\ cs = [r \in SaleReqs |-> CsIdle]
  /\ ex = [r \in SerialReqs |-> ExIdle]
  /\ exOverlap = {}
  /\ exFinished = <<>>
  /\ up = [r \in UploadReqs |-> UpIdle]
  /\ dc = [r \in DeleteCustomerReqs |-> DcIdle]
  /\ pa = [r \in AdminReqs |-> PaIdle]
  /\ InitProcess

\* No warranty query has been evaluated; the process runs at noon, in UTC.
InitQuery ==
  /\ nowHour = 12
  /\ utcOffset = 0
  /\ wq = {}

InitWarranty ==
  /\ wDate = [y |-> BaseYear, m |-> 1, d |-> 1]
  /\ wMonths = MinWarrantyMonths
  /\ wOut = {}

Init ==
  /\ products = InitProducts(MaxStock)
  /\ stock0 = [p \in ProductIds |-> products[p].stock]
  /\ customers = {"c1"}
  /\ sales = {}
  /\ sale_images = {}
  /\ rowLock = [p \in ProductIds |-> 0]
  /\ decremented = {}
  /\ today \in SaleDates
  /\ InitRequests
  /\ InitAuth
  /\ InitWarranty
  /\ InitQuery

Next ==
  \E r \in SaleReqs :
    \/ CsGetClient(r)
    \/ CsGetClientFails(r)
    \/ CsBegin(r)
    \/ CsSelectProduct(r)
    \/ CsSelectCustomer(r)
    \/ CsInsertSale(r)
    \/ CsUpdateStock(r)
    \/ CsCommit(r)
    \/ CsQueryFails(r)
    \/ CsRollback(r)
    \/ CsRollbackFails(r)
    \/ CsRelease(r)

Spec == Init /\ [][Next]_vars

(***************************************************************************)
(* Specification of the warranty calculator: one evaluation of             *)
(* calculateWarrantyDates on any date and any accepted period.             *)
(***************************************************************************)
InitCalc ==
  /\ products = InitProducts(0)
  /\ stock0 = [p \in ProductIds |-> products[p].stock]
  /\ customers = {"c1"}
  /\ sales = {}
  /\ sale_images = {}
  /\ rowLock = [p \in ProductIds |-> 0]
  /\ decremented = {}
  /\ today = [y |-> BaseYear, m |-> 1, d |-> 1]
  /\ InitRequests
  /\ InitAuth
  /\ InitQuery
  /\ wDate \in Dates
  /\ wMonths \in MinWarrantyMonths .. MaxWarrantyMonths
  /\ wOut = {}

Calc ==
  /\ wOut = {}
  /\ wOut' = {calculateWarrantyDates(wDate, wMonths)}
  /\ UNCHANGED <<dbVars, today, cs, exVars, upVars, wDate, wMonths, adminVars, queryVars, authVars, processVars>>

NextCalc == Calc

SpecCalc == InitCalc /\ [][NextCalc]_vars

(***************************************************************************)
(* Definitions used by the properties.                                     *)
(***************************************************************************)
RECURSIVE SumQuantity(_)
SumQuantity(rows) ==
  IF rows = {} THEN 0
  ELSE LET row == CHOOSE x \in rows : TRUE
       IN  row.quantity + SumQuantity(rows \ {row})

SalesOf(p) == {row \in sales : row.product_id = p}
HasSaleRow(r) == \E row \in sales : row.id = r
AllSettled == \A r \in SaleReqs : cs[r].pc \in {"idle", "done"}
Succeeded(r) == cs[r].pc = "done" /\ cs[r].resp.status = 201
Sellable(p) == p \in ProductIds /\ products[p].exists /\ products[p].is_active
Count(seq, e) == Cardinality({i \in DOMAIN seq : seq[i] = e})

\* C1: under every interleaving of concurrent createSale requests the stock
\* of a product is never negative in a committed state; once every
\* transaction has committed or rolled back it equals the initial stock minus
\* the quantities of the sales that committed; and two requests whose
\* combined quantity exceeds the initial stock never both succeed.
C1_StockInvariant ==
  /\ \A p \in ProductIds : products[p].stock >= 0
  /\ AllSettled =>
       \A p \in ProductIds : products[p].stock = stock0[p] - SumQuantity(SalesOf(p))
  /\ \A r1, r2 \in SaleReqs :
       (r1 # r2 /\ Succeeded(r1) /\ Succeeded(r2)
          /\ cs[r1].product_id = cs[r2].product_id)
       => cs[r1].quantity + cs[r2].quantity <= stock0[cs[r1].product_id]

\* C1 witness: two requests raced on one product with a combined quantity above
\* the stock; one committed, the other was stopped by the CHECK constraint.
C1_Witness ==
  /\ AllSettled
  /\ \E r1, r2 \in SaleReqs :
       /\ Succeeded(r1)
       /\ cs[r2].pc = "done" /\ cs[r2].err.code = CheckViolation
       /\ cs[r1].product_id = cs[r2].product_id
       /\ cs[r1].quantity + cs[r2].quantity > stock0[cs[r1].product_id]

\* C2: in every committed state the sale row of a request exists if and only
\* if the stock decrement of that request has been applied, and the stock
\* accounts for exactly the rows that exist.
C2_SaleAtomic ==
  /\ \A r \in SaleReqs : HasSaleRow(r) <=> r \in decremented
  /\ \A p \in ProductIds : products[p].stock = stock0[p] - SumQuantity(SalesOf(p))

\* C2 witness: the stock UPDATE of a request failed on the CHECK constraint
\* after its INSERT had run; the request is over and its row is not there.
C2_Witness ==
  \E r \in SaleReqs :
    /\ cs[r].pc = "done"
    /\ cs[r].err.code = CheckViolation
    /\ ~HasSaleRow(r)
    /\ r \notin decremented

C4_RollbackThenRelease ==
  \A r \in SaleReqs :
    LET q == cs[r]
    IN  /\ Count(q.log, "release") <= 1
        /\ Count(q.log, "connect") <= 1
        /\ (q.pc = "done" /\ q.log # <<>> /\ q.err = NoError)
             => q.log = <<"connect", "release">>
        /\ (q.pc = "done" /\ q.log # <<>> /\ q.err # NoError)
             => q.log = <<"connect", "rollback", "release">>
        /\ (q.pc \notin {"idle", "done"})
             => (Count(q.log, "connect") = 1 /\ Count(q.log, "release") = 0)
        /\ (q.pc = "finally" /\ q.err # NoError) => Count(q.log, "rollback") = 1

\* C4 witness: a request whose stock UPDATE threw has rolled back and then
\* released its connection.
C4_Witness ==
  \E r \in SaleReqs :
    /\ cs[r].pc = "done"
    /\ cs[r].err.code = CheckViolation
    /\ cs[r].log = <<"connect", "rollback", "release">>

\* C5: a successful createSale persists exactly one sale with total_price =
\* quantity * unit_price, warranty_start = the sale date, warranty_end = the
\* sale date advanced by the warranty period in calendar months (the day kept
\* when the target month has it, else its last day), the authenticated caller
\* as seller, and the stock reduced by the quantity.
C5_SuccessfulSale ==
  \A r \in SaleReqs :
    Succeeded(r) =>
      /\ Cardinality({row \in sales : row.id = r}) = 1
      /\ \A row \in sales :
           row.id = r =>
             /\ row.total_price = row.quantity * row.unit_price
             /\ row.quantity = cs[r].quantity
             /\ row.warranty_start = row.sale_date
             /\ row.warranty_end = AddMonthsClamped(row.sale_date, row.warranty_period_months)
             /\ row.seller_id \in SellerIds
      /\ r \in decremented

(***************************************************************************)
(* extractSerial (controllers/saleController.ts).  Every statement runs on *)
(* the pool, each in its own implicit transaction.                         *)
(***************************************************************************)
\* Sale ids a request may name: the two sales that exist and one that does not.
SaleIdInputs == {1, 2, 3}

\* Values the OCR stub returns (prefix + timestamp digits + random letters).
ExtractedSerials == {"OCR-A", "OCR-B"}

SaleRowOf(id) == CHOOSE row \in sales : row.id = id
SaleExists(id) == \E row \in sales : row.id = id
SerialOf(id) == SaleRowOf(id).serial_number
ExInFlight(r) == ex[r].pc \notin {"idle", "done"}

ImageRow(by, r, idx, sale_id, image_type) ==
  [id |-> [by |-> by, req |-> r, idx |-> idx], sale_id |-> sale_id,
   image_type |-> image_type]

\* The guard of the UPDATE dropped: the serial is always written.
SerialAbsentAlways(serial) == TRUE

\* !saleCheck.rows[0].serial_number
SerialAbsent(serial) == serial \in {None, ""}

\* The file check, then SELECT id, serial_number FROM sales WHERE id = $1.
ExSelectSale(r) ==
  /\ ex[r].pc = "idle"
  /\ \E s \in SaleIdInputs, hasFile \in BOOLEAN :
       IF ~hasFile
         THEN /\ ex' = [ex EXCEPT ![r].pc = "done",
                   ![r].resp = errorHandler(ValidationError(Msg("Imagen requerida", 0, 0)))]
              /\ UNCHANGED exOverlap
       ELSE IF ~SaleExists(s)
         THEN /\ ex' = [ex EXCEPT ![r].pc = "done", ![r].sale_id = s,
                   ![r].resp = errorHandler(NotFoundError("Venta no encontrada"))]
              /\ UNCHANGED exOverlap
       ELSE /\ ex' = [ex EXCEPT ![r].pc = "ocr", ![r].sale_id = s,
                                ![r].serialRead = SerialOf(s)]
            /\ exOverlap' = IF \E r2 \in SerialReqs \ {r} :
                                  ExInFlight(r2) /\ ex[r2].sale_id = s
                              THEN exOverlap \cup {s} ELSE exOverlap
  /\ UNCHANGED <<dbVars, today, cs, exFinished, upVars, warrantyVars, adminVars, queryVars, authVars, processVars>>

\* await extractSerialFromImage(...): a non-empty synthetic serial.
ExOcr(r) ==
  /\ ex[r].pc = "ocr"
  /\ \E x \in ExtractedSerials :
       ex' = [ex EXCEPT ![r].pc = "upload", ![r].extracted = x]
  /\ UNCHANGED <<dbVars, today, cs, exOverlap, exFinished, upVars, warrantyVars, adminVars, queryVars, authVars, processVars>>

\* await uploadImage(..., 'serial_number')
ExUploadImage(r) ==
  /\ ex[r].pc = "upload"
  /\ ex' = [ex EXCEPT ![r].pc = "insertImage"]
  /\ UNCHANGED <<dbVars, today, cs, exOverlap, exFinished, upVars, warrantyVars, adminVars, queryVars, authVars, processVars>>

\* INSERT INTO sale_images (...), then the test of the serial read at the start:
\* when the sale had one, the handler answers 200 without an UPDATE.
ExInsertImage(r) ==
  /\ ex[r].pc = "insertImage"
  /\ sale_images' = sale_images \cup
        {ImageRow("extractSerial", r, 0, ex[r].sale_id, "serial_number")}
  /\ IF SerialAbsent(ex[r].serialRead)
       THEN /\ ex' = [ex EXCEPT ![r].pc = "updateSerial"]
            /\ UNCHANGED exFinished
       ELSE /\ ex' = [ex EXCEPT ![r].pc = "done", ![r].resp = Ok]
            /\ exFinished' = Append(exFinished, r)
  /\ UNCHANGED <<products, customers, sales, rowLock, stock0, decremented,
                 today, cs, exOverlap, upVars, warrantyVars, adminVars, queryVars, authVars, processVars>>

\* The UPDATE had it extended the warranty as well.
ExUpdateSerialExtendingWarranty(r) ==
  /\ ex[r].pc = "updateSerial"
  /\ sales' = {IF row.id = ex[r].sale_id
                 THEN [row EXCEPT !.serial_number = ex[r].extracted,
                                  !.warranty_period_months = @ + 1]
                 ELSE row : row \in sales}
  /\ ex' = [ex EXCEPT ![r].pc = "done", ![r].resp = Ok]
  /\ exFinished' = Append(exFinished, r)
  /\ UNCHANGED <<products, customers, sale_images, rowLock, stock0, decremented,
                 today, cs, exOverlap, upVars, warrantyVars, adminVars, queryVars, authVars, processVars>>

\* UPDATE sales SET serial_number = $1, updated_at = ... WHERE id = $2, then 200.
ExUpdateSerial(r) ==
  /\ ex[r].pc = "updateSerial"
  /\ sales' = {IF row.id = ex[r].sale_id
                 THEN [row EXCEPT !.serial_number = ex[r].extracted]
                 ELSE row : row \in sales}
  /\ ex' = [ex EXCEPT ![r].pc = "done", ![r].resp = Ok]
  /\ exFinished' = Append(exFinished, r)
  /\ UNCHANGED <<products, customers, sale_images, rowLock, stock0, decremented,
                 today, cs, exOverlap, upVars, warrantyVars, adminVars, queryVars, authVars, processVars>>

\* The store after two sales of product p1 were committed: sale 1 without a
\* serial number, sale 2 created with one.
InitAfterSales ==
  /\ today = [y |-> 2024, m |-> 1, d |-> 15]
  /\ products = InitProducts(MaxStock - 2)
  /\ stock0 = [p \in ProductIds |-> IF p = "p1" THEN MaxStock ELSE products[p].stock]
  /\ customers = {"c1"}
  /\ sales = {SaleRow(1, "p1", "c1", "u1", 1, 10000, 12, "", today),
              SaleRow(2, "p1", "c1", "u1", 1, 10000, 12, "SN-A", today)}
  /\ sale_images = {}
  /\ rowLock = [p \in ProductIds |-> 0]
  /\ decremented = {1, 2}
  /\ InitRequests
  /\ InitAuth
  /\ InitWarranty
  /\ InitQuery

NextSerial ==
  \E r \in SerialReqs :
    \/ ExSelectSale(r)
    \/ ExOcr(r)
    \/ ExUploadImage(r)
    \/ ExInsertImage(r)
    \/ ExUpdateSerial(r)

SpecSerial == InitAfterSales /\ [][NextSerial]_vars

\* C8: once a sale's serial_number holds a value, no later write changes it,
\* under every interleaving of extractSerial requests on the sale.
C8_SerialWrittenOnce ==
  [][\A row \in sales :
       row.serial_number # None =>
         \A row2 \in sales' : row2.id = row.id => row2.serial_number = row.serial_number]_vars

\* The extractSerial requests on sale s that were answered 200, in order.
FinishedOn(s) ==
  LET onSale(r) == ex[r].sale_id = s
  IN  SelectSeq(exFinished, onSale)

\* C9: when the extractSerial calls on a sale run one after the other, a sale
\* that had no serial number gets the value the first call extracted and
\* later calls leave it; a sale created with a serial number keeps it.
C9_SequentialSerial ==
  /\ SerialOf(2) = "SN-A"
  /\ 1 \notin exOverlap =>
       IF FinishedOn(1) = <<>>
         THEN SerialOf(1) = None
         ELSE SerialOf(1) = ex[FinishedOn(1)[1]].extracted

\* C9 witness: two calls on sale 1, one after the other, extracted different
\* serials; the sale holds the first one.  A call on sale 2 has finished too.
C9_Witness ==
  /\ 1 \notin exOverlap
  /\ Len(FinishedOn(1)) >= 2
  /\ ex[FinishedOn(1)[1]].extracted # ex[FinishedOn(1)[2]].extracted
  /\ SerialOf(1) = ex[FinishedOn(1)[1]].extracted
  /\ Len(FinishedOn(2)) >= 1

(***************************************************************************)
(* uploadSaleImages (controllers/saleController.ts).  After the checks the *)
(* handler starts one upload-and-insert per file; the inserts run on the   *)
(* pool in any order, and the response waits for all of them.              *)
(***************************************************************************)
RECURSIVE SeqsUpTo(_, _)
SeqsUpTo(S, n) ==
  IF n = 0 THEN {<<>>}
  ELSE LET shorter == SeqsUpTo(S, n - 1)
       IN  shorter \cup {Append(q, x) : q \in shorter, x \in S}

\* image_types as the route accepts it: at most three entries, each a valid type.
ImageTypeLists == SeqsUpTo(ImageTypes, MaxImagesPerRequest)

\* files / image_types checks, then SELECT id FROM sales WHERE id = $1.
UpSelectSale(r) ==
  /\ up[r].pc = "idle"
  /\ \E s \in SaleIdInputs, types \in ImageTypeLists, nFiles \in 0..MaxImagesPerRequest :
       IF nFiles = 0
         THEN up' = [up EXCEPT ![r].pc = "done",
                 ![r].resp = errorHandler(ValidationError(Msg("No se proporcionaron imagenes", 0, 0)))]
       ELSE IF nFiles # Len(types)
         THEN up' = [up EXCEPT ![r].pc = "done",
                 ![r].resp = errorHandler(ValidationError(
                    Msg("Numero de imagenes debe coincidir con tipos de imagen", 0, 0)))]
       ELSE IF ~SaleExists(s)
         THEN up' = [up EXCEPT ![r].pc = "done", ![r].sale_id = s,
                 ![r].resp = errorHandler(NotFoundError("Venta no encontrada"))]
       ELSE up' = [up EXCEPT ![r].pc = "uploading", ![r].sale_id = s, ![r].types = types]
  /\ UNCHANGED <<dbVars, today, cs, exVars, warrantyVars, adminVars, queryVars, authVars, processVars>>

\* One file: await uploadImage(...), then INSERT INTO sale_images (...).
\* sale_images has a primary key on id and no other unique constraint.
UpInsertImage(r) ==
  /\ up[r].pc = "uploading"
  /\ \E i \in DOMAIN up[r].types \ up[r].inserted :
       /\ sale_images' = sale_images \cup
             {ImageRow("uploadSaleImages", r, i, up[r].sale_id, up[r].types[i])}
       /\ up' = [up EXCEPT ![r].inserted = up[r].inserted \cup {i}]
  /\ UNCHANGED <<products, customers, sales, rowLock, stock0, decremented,
                 today, cs, exVars, warrantyVars, adminVars, queryVars, authVars, processVars>>

\* await Promise.all(uploadPromises), then 201 with the created rows.
UpRespond(r) ==
  /\ up[r].pc = "uploading"
  /\ up[r].inserted = DOMAIN up[r].types
  /\ up' = [up EXCEPT ![r].pc = "done", ![r].resp = Created]
  /\ UNCHANGED <<dbVars, today, cs, exVars, warrantyVars, adminVars, queryVars, authVars, processVars>>

\* uploadImage throws when the file exceeds the size its type allows.
FileTooLarge == [PlainError EXCEPT !.message = Msg("Archivo demasiado grande", 0, 0)]

\* One file fails, in uploadImage or in its INSERT: its promise rejects.  The
\* first rejection rejects Promise.all and the error is answered; the
\* promises of the other files run on.  The file counts as settled.
UpFileFails(r) ==
  /\ up[r].pc \in {"uploading", "rejected"}
  /\ \E i \in DOMAIN up[r].types \ up[r].inserted,
        err \in {FileTooLarge, PgError(ConnectionFailure)} :
       up' = [up EXCEPT ![r].pc = "rejected",
                        ![r].inserted = up[r].inserted \cup {i},
                        ![r].resp = IF up[r].pc = "uploading" THEN errorHandler(err)
                                    ELSE up[r].resp]
  /\ UNCHANGED <<dbVars, today, cs, exVars, warrantyVars, adminVars, queryVars, authVars, processVars>>

\* After the error was answered: a file whose promise is still pending is
\* uploaded and its row inserted.
UpInsertAfterError(r) ==
  /\ up[r].pc = "rejected"
  /\ \E i \in DOMAIN up[r].types \ up[r].inserted :
       /\ sale_images' = sale_images \cup
             {ImageRow("uploadSaleImages", r, i, up[r].sale_id, up[r].types[i])}
       /\ up' = [up EXCEPT ![r].inserted = up[r].inserted \cup {i}]
  /\ UNCHANGED <<products, customers, sales, rowLock, stock0, decremented,
                 today, cs, exVars, warrantyVars, adminVars, queryVars, authVars, processVars>>

NextUpload ==
  \E r \in UploadReqs :
    \/ UpSelectSale(r)
    \/ UpInsertImage(r)
    \/ UpRespond(r)
    \/ UpFileFails(r)
    \/ UpInsertAfterError(r)

SpecUpload == InitAfterSales /\ [][NextUpload]_vars

ImagesOf(s, t) == {img \in sale_images : img.sale_id = s /\ img.image_type = t}

\* C10: a sale never has two images of one type: an upload of a type the sale
\* already has adds no row and is answered 409 Conflict.
C10_ImageTypeUnique ==
  /\ \A s \in SaleIdInputs, t \in ImageTypes : Cardinality(ImagesOf(s, t)) <= 1
  /\ \A r \in UploadReqs : up[r].pc = "done" => up[r].resp.status \in {201, 400, 404, 409}

\* The sale_images rows inserted by upload request r.
RowsOfUpload(r) ==
  {img \in sale_images : img.id.by = "uploadSaleImages" /\ img.id.req = r}

\* C29: uploadSaleImages is all-or-nothing: when the request was answered
\* with an error, no sale_images row inserted by it exists.
C29_UploadAllOrNothing ==
  \A r \in UploadReqs :
    (up[r].resp # NoResponse /\ ~up[r].resp.success) => RowsOfUpload(r) = {}

\* C26: a sale owns at most 3 images whatever uploadSaleImages and
\* extractSerial calls were made, and at most one of type serial_number
\* however often extractSerial ran on it.
C26_AtMostThreeImages ==
  \A s \in SaleIdInputs :
    /\ Cardinality({img \in sale_images : img.sale_id = s}) <= MaxImagesPerRequest
    /\ Cardinality(ImagesOf(s, "serial_number")) <= 1

\* C6: calculateWarrantyDates(D, M) gives warrantyStart = D and warrantyEnd = D
\* advanced by M calendar months, the day of the month kept when the target
\* month has it and else the last day of the target month.
C6_WarrantyDates ==
  \A w \in wOut :
    /\ w.warrantyStart = wDate
    /\ w.warrantyEnd = AddMonthsClamped(wDate, wMonths)

\* C7: for every sale date and every period of 1..120 months the computed
\* warrantyEnd is strictly after warrantyStart.
C7_WarrantyEndAfterStart ==
  \A w \in wOut : DateNum(w.warrantyEnd) > DateNum(w.warrantyStart)

\* C7 witness: a day that does not exist in the target month (Jan 31 + 1
\* month) was evaluated, and so was the longest period.
C7_Witness ==
  \E w \in wOut :
    /\ wDate.d = 31 /\ wDate.m = 1 /\ wMonths = MinWarrantyMonths
    /\ DateNum(w.warrantyEnd) > DateNum(w.warrantyStart)

(***************************************************************************)
(* deleteCustomer (controllers/customerController.ts).  Three statements   *)
(* on the pool, each in its own implicit transaction.                      *)
(***************************************************************************)
\* The createSale request that runs beside the administrative requests.
RacingSaleReqs == {1}

\* The count read as 0 whatever the customer owns.
SalesCountNone(c) == 0

\* SELECT COUNT(*) FROM sales WHERE customer_id = $1, parsed as an integer
SalesCount(c) == Cardinality({row \in sales : row.customer_id = c})

\* sales.customer_id REFERENCES customers(id): the INSERT of a sale holds a
\* key-share lock on the customer row until its transaction ends.
CustomerKeyShared(c) ==
  \E r \in SaleReqs : \E row \in cs[r].pendingSale : row.customer_id = c

\* SELECT first_name, last_name FROM customers WHERE id = $1
DcSelectCustomer(r) ==
  /\ dc[r].pc = "idle"
  /\ \E c \in CustomerIds :
       IF c \notin customers
         THEN dc' = [dc EXCEPT ![r].pc = "done", ![r].id = c,
                 ![r].resp = errorHandler(NotFoundError("Cliente no encontrado"))]
         ELSE dc' = [dc EXCEPT ![r].pc = "count", ![r].id = c]
  /\ UNCHANGED <<dbVars, today, cs, exVars, upVars, warrantyVars, pa, queryVars, authVars, processVars>>

\* The COUNT query, then the guard on salesCount > 0.
DcCountSales(r) ==
  /\ dc[r].pc = "count"
  /\ LET n == SalesCount(dc[r].id)
     IN  IF n > 0
           THEN dc' = [dc EXCEPT ![r].pc = "done", ![r].salesCount = n,
                   ![r].resp = errorHandler(ConflictError(
                      Msg("No se puede eliminar el cliente. Tiene venta(s) asociada(s)", n, 0)))]
           ELSE dc' = [dc EXCEPT ![r].pc = "delete", ![r].salesCount = n]
  /\ UNCHANGED <<dbVars, today, cs, exVars, upVars, warrantyVars, pa, queryVars, authVars, processVars>>

\* DELETE FROM customers WHERE id = $1, then 200.  The statement waits for a
\* key-share lock on the row; the foreign keys are ON DELETE CASCADE, so the
\* sales of the customer committed by then go with the row, and their images.
DcDelete(r) ==
  /\ dc[r].pc = "delete"
  /\ ~CustomerKeyShared(dc[r].id)
  /\ customers' = customers \ {dc[r].id}
  /\ sales' = {row \in sales : row.customer_id # dc[r].id}
  /\ sale_images' = {img \in sale_images :
                       \E row \in sales : row.id = img.sale_id /\ row.customer_id # dc[r].id}
  /\ dc' = [dc EXCEPT ![r].pc = "done", ![r].resp = Ok]
  /\ UNCHANGED <<products, rowLock, stock0, decremented, today, cs, exVars, upVars,
                 warrantyVars, pa, queryVars, authVars, processVars>>

\* One createSale request beside the deleteCustomer requests.
NextCustomer ==
  \/ \E r \in RacingSaleReqs :
       \/ CsGetClient(r)
       \/ CsGetClientFails(r)
       \/ CsBegin(r)
       \/ CsSelectProduct(r)
       \/ CsSelectCustomer(r)
       \/ CsInsertSale(r)
       \/ CsUpdateStock(r)
       \/ CsCommit(r)
       \/ CsQueryFails(r)
       \/ CsRollback(r)
       \/ CsRollbackFails(r)
       \/ CsRelease(r)
  \/ \E r \in DeleteCustomerReqs :
       \/ DcSelectCustomer(r)
       \/ DcCountSales(r)
       \/ DcDelete(r)

SpecCustomer == Init /\ [][NextCustomer]_vars

SaleIds == {row.id : row \in sales}

\* C11: no operation removes a sale row: a sale that has committed stays in
\* the sales table under every interleaving of createSale and deleteCustomer;
\* deleteCustomer never cascades into the sales of the customer.
C11_SalesNeverRemoved ==
  [][\A id \in SaleIds : \E row \in sales' : row.id = id]_vars

\* C12: deleteCustomer on a customer owning n >= 1 sales answers 409
\* ConflictError with n in the message and leaves the customer and its sales
\* as they are; on a customer with no sales it removes the customer and
\* answers 200; on an id of no customer it answers 404 NotFound and changes
\* nothing.  The number of sales is the one at the handler's COUNT query.
C12_DeleteCustomerGuard ==
  [][\A r \in DeleteCustomerReqs :
       LET c == dc'[r].id
           n == Cardinality({row \in sales : row.customer_id = c})
       IN  /\ (dc[r].pc = "idle" /\ dc'[r].pc # "idle" /\ c \notin customers)
                => /\ dc'[r].pc = "done"
                   /\ dc'[r].resp.status = 404 /\ dc'[r].resp.name = "NotFoundError"
                   /\ UNCHANGED dbVars
           /\ (dc[r].pc = "idle" /\ dc'[r].pc # "idle" /\ c \in customers)
                => dc'[r].pc = "count" /\ UNCHANGED dbVars
           /\ (dc[r].pc = "count" /\ dc'[r].pc # "count" /\ n >= 1)
                => /\ dc'[r].pc = "done"
                   /\ dc'[r].resp.status = 409 /\ dc'[r].resp.name = "ConflictError"
                   /\ dc'[r].resp.error.a = n
                   /\ UNCHANGED dbVars
           /\ (dc[r].pc = "count" /\ dc'[r].pc # "count" /\ n = 0)
                => dc'[r].pc = "delete" /\ UNCHANGED dbVars
           /\ (dc[r].pc = "delete" /\ dc'[r].pc # "delete")
                => /\ dc'[r].pc = "done" /\ dc'[r].resp = Ok
                   /\ c \notin customers'
                   /\ customers' = customers \ {c}]_vars

\* C12 witness: one deleteCustomer was answered 409 with the count of the
\* sale createSale had committed for the customer, and another request, on
\* an id of no customer, was answered 404.
C12_Witness ==
  \E r1, r2 \in DeleteCustomerReqs :
    /\ dc[r1].pc = "done" /\ dc[r1].resp.status = 409
    /\ dc[r1].resp.error.a = 1 /\ dc[r1].id \in customers
    /\ \E row \in sales : row.customer_id = dc[r1].id
    /\ dc[r2].pc = "done" /\ dc[r2].resp.status = 404

(***************************************************************************)
(* Product administration (controllers/productController.ts):              *)
(* createProduct, updateProduct, deleteProduct and adjustStock.  Every     *)
(* statement runs on the pool, in its own implicit transaction; an UPDATE  *)
(* of a row waits while a createSale transaction holds the row's lock.     *)
(***************************************************************************)
\* generateUUID(): the id of the row a createProduct request inserts.
NewId(r) == "new-" \o r
NewProductIds == {NewId(r) : r \in AdminReqs}
AllProductIds == ProductIds \cup NewProductIds

\* sku of a createProduct body: one in use and one that is free.
Skus == {"SKU-1", "SKU-9"}
\* stock of a createProduct body (validated >= 0; 0 when absent).
CreateStocks == {0, 1}
\* Bodies of updateProduct that pass validateUpdateProduct: no field, stock,
\* is_active, and sku (of another product, or free).
UpdateBodies ==
  {NoBody,
   [NoBody EXCEPT !.stock = {0}],
   [NoBody EXCEPT !.is_active = {TRUE}],
   [NoBody EXCEPT !.sku = {"SKU-2"}],
   [NoBody EXCEPT !.sku = {"SKU-9"}]}
\* adjustment of an adjustStock body.
Adjustments == {-MaxQty, 1}

TheOne(S) == CHOOSE x \in S : TRUE
RowLocked(id) == id \in ProductIds /\ rowLock[id] # 0

\* products.sku without its UNIQUE constraint.
ProductsSkuUniqueAbsent(id, sku) == TRUE

\* products: sku VARCHAR(100) UNIQUE NOT NULL, for the row id getting sku.
ProductsSkuUnique(id, sku) ==
  \A p \in DOMAIN products \ {id} : ~(products[p].exists /\ products[p].sku = sku)

\* The SET clause that also sets is_active = true.
UpdatedRowActivating(row, body) ==
  [row EXCEPT !.sku = IF body.sku = {} THEN @ ELSE TheOne(body.sku),
              !.stock = IF body.stock = {} THEN @ ELSE TheOne(body.stock),
              !.is_active = TRUE]

\* updateProduct's SET clause: one assignment per field the body defines.
UpdatedRow(row, body) ==
  [row EXCEPT !.sku = IF body.sku = {} THEN @ ELSE TheOne(body.sku),
              !.stock = IF body.stock = {} THEN @ ELSE TheOne(body.stock),
              !.is_active = IF body.is_active = {} THEN @ ELSE TheOne(body.is_active)]

\* The soft delete that also clears the stock.
DeactivatedRowCleared(row) == [row EXCEPT !.is_active = FALSE, !.stock = 0]

\* deleteProduct: SET is_active = false
DeactivatedRow(row) == [row EXCEPT !.is_active = FALSE]

PaDone(r, op, id, body, adjustment, resp) ==
  pa' = [pa EXCEPT ![r] = [PaIdle EXCEPT !.op = op, !.pc = "done", !.id = id,
                             !.body = body, !.adjustment = adjustment, !.resp = resp]]

\* createProduct: SELECT id FROM products WHERE sku = $1
CpSelectSku(r) ==
  /\ pa[r].pc = "idle"
  /\ \E sku \in Skus :
       LET body == [NoBody EXCEPT !.sku = {sku}]
       IN  IF \E p \in DOMAIN products : products[p].exists /\ products[p].sku = sku
             THEN PaDone(r, "createProduct", None, body, 0,
                    errorHandler(ConflictError(Msg("Ya existe un producto con este SKU", 0, 0))))
             ELSE pa' = [pa EXCEPT ![r].op = "createProduct", ![r].pc = "cpInsert",
                           ![r].body = body]
  /\ UNCHANGED <<dbVars, today, cs, exVars, upVars, warrantyVars, dc, queryVars, authVars, processVars>>

\* createProduct: INSERT INTO products (...) with stock = 0 by default, then 201.
CpInsert(r) ==
  /\ pa[r].pc = "cpInsert"
  /\ \E stock \in CreateStocks :
       LET sku == TheOne(pa[r].body.sku)
       IN  IF ~ProductsSkuUnique(NewId(r), sku)
             THEN /\ PaDone(r, "createProduct", None, pa[r].body, 0,
                       errorHandler(PgError(UniqueViolation)))
                  /\ UNCHANGED products
           ELSE IF ~ProductsStockCheck(stock)
             THEN /\ PaDone(r, "createProduct", None, pa[r].body, 0,
                       errorHandler(PgError(CheckViolation)))
                  /\ UNCHANGED products
           ELSE /\ products' = [products EXCEPT ![NewId(r)] =
                       [exists |-> TRUE, is_active |-> TRUE, stock |-> stock, sku |-> sku]]
                /\ PaDone(r, "createProduct", NewId(r), pa[r].body, 0, Created)
  /\ UNCHANGED <<customers, sales, sale_images, rowLock, stock0, decremented,
                 today, cs, exVars, upVars, warrantyVars, dc, queryVars, authVars, processVars>>

\* updateProduct: SELECT id FROM products WHERE id = $1; without a sku in the
\* body the handler goes on to build the UPDATE, or throws when no field is given.
UpdSelectProduct(r) ==
  /\ pa[r].pc = "idle"
  /\ \E id \in ProductIds, body \in UpdateBodies :
       IF ~products[id].exists
         THEN PaDone(r, "updateProduct", id, body, 0,
                errorHandler(NotFoundError("Producto no encontrado")))
       ELSE IF body.sku # {}
         THEN pa' = [pa EXCEPT ![r].op = "updateProduct", ![r].pc = "updSkuCheck",
                       ![r].id = id, ![r].body = body]
       ELSE IF body = NoBody
         THEN PaDone(r, "updateProduct", id, body, 0,
                errorHandler(ValidationError(
                  Msg("No se proporcionaron campos para actualizar", 0, 0))))
       ELSE pa' = [pa EXCEPT ![r].op = "updateProduct", ![r].pc = "updWrite",
                     ![r].id = id, ![r].body = body]
  /\ UNCHANGED <<dbVars, today, cs, exVars, upVars, warrantyVars, dc, queryVars, authVars, processVars>>

\* updateProduct: SELECT id FROM products WHERE sku = $1 AND id != $2
UpdCheckSku(r) ==
  /\ pa[r].pc = "updSkuCheck"
  /\ IF \E p \in DOMAIN products \ {pa[r].id} :
          products[p].exists /\ products[p].sku = TheOne(pa[r].body.sku)
       THEN PaDone(r, "updateProduct", pa[r].id, pa[r].body, 0,
              errorHandler(ConflictError(Msg("Ya existe otro producto con este SKU", 0, 0))))
       ELSE pa' = [pa EXCEPT ![r].pc = "updWrite"]
  /\ UNCHANGED <<dbVars, today, cs, exVars, upVars, warrantyVars, dc, queryVars, authVars, processVars>>

\* updateProduct: UPDATE products SET ... WHERE id = $n, then 200.
UpdWrite(r) ==
  /\ pa[r].pc = "updWrite"
  /\ ~RowLocked(pa[r].id)
  /\ LET row == UpdatedRow(products[pa[r].id], pa[r].body)
     IN  IF ~ProductsSkuUnique(pa[r].id, row.sku)
           THEN /\ PaDone(r, "updateProduct", pa[r].id, pa[r].body, 0,
                     errorHandler(PgError(UniqueViolation)))
                /\ UNCHANGED products
         ELSE IF ~ProductsStockCheck(row.stock)
           THEN /\ PaDone(r, "updateProduct", pa[r].id, pa[r].body, 0,
                     errorHandler(PgError(CheckViolation)))
                /\ UNCHANGED products
         ELSE /\ products' = [products EXCEPT ![pa[r].id] = row]
              /\ PaDone(r, "updateProduct", pa[r].id, pa[r].body, 0, Ok)
  /\ UNCHANGED <<customers, sales, sale_images, rowLock, stock0, decremented,
                 today, cs, exVars, upVars, warrantyVars, dc, queryVars, authVars, processVars>>

\* deleteProduct: SELECT id FROM products WHERE id = $1
DelSelectProduct(r) ==
  /\ pa[r].pc = "idle"
  /\ \E id \in ProductIds :
       IF ~products[id].exists
         THEN PaDone(r, "deleteProduct", id, NoBody, 0,
                errorHandler(NotFoundError("Producto no encontrado")))
         ELSE pa' = [pa EXCEPT ![r].op = "deleteProduct", ![r].pc = "delWrite", ![r].id = id]
  /\ UNCHANGED <<dbVars, today, cs, exVars, upVars, warrantyVars, dc, queryVars, authVars, processVars>>

\* deleteProduct: UPDATE products SET is_active = false WHERE id = $1, then 200.
DelWrite(r) ==
  /\ pa[r].pc = "delWrite"
  /\ ~RowLocked(pa[r].id)
  /\ products' = [products EXCEPT ![pa[r].id] = DeactivatedRow(@)]
  /\ PaDone(r, "deleteProduct", pa[r].id, NoBody, 0, Ok)
  /\ UNCHANGED <<customers, sales, sale_images, rowLock, stock0, decremented,
                 today, cs, exVars, upVars, warrantyVars, dc, queryVars, authVars, processVars>>

\* adjustStock: the typeof check, SELECT stock, name FROM products WHERE id = $1
\* AND is_active = true, then newStock = currentStock + adjustment and its check.
AdjSelectProduct(r) ==
  /\ pa[r].pc = "idle"
  /\ \E id \in ProductIds, adjustment \in Adjustments, isNumber \in BOOLEAN :
       LET row == products[id]
           newStock == row.stock + adjustment
       IN  IF ~isNumber
             THEN PaDone(r, "adjustStock", None, NoBody, 0,
                    errorHandler(ValidationError(Msg("El ajuste debe ser un numero", 0, 0))))
           ELSE IF ~(row.exists /\ row.is_active)
             THEN PaDone(r, "adjustStock", id, NoBody, adjustment,
                    errorHandler(NotFoundError("Producto no encontrado o inactivo")))
           ELSE IF newStock < 0
             THEN PaDone(r, "adjustStock", id, NoBody, adjustment,
                    errorHandler(ValidationError(Msg("El stock no puede ser negativo", 0, 0))))
           ELSE pa' = [pa EXCEPT ![r].op = "adjustStock", ![r].pc = "adjWrite", ![r].id = id,
                         ![r].adjustment = adjustment, ![r].newStock = newStock]
  /\ UNCHANGED <<dbVars, today, cs, exVars, upVars, warrantyVars, dc, queryVars, authVars, processVars>>

\* adjustStock: UPDATE products SET stock = $1 WHERE id = $2, then 200.
AdjWrite(r) ==
  /\ pa[r].pc = "adjWrite"
  /\ ~RowLocked(pa[r].id)
  /\ IF ~ProductsStockCheck(pa[r].newStock)
       THEN /\ PaDone(r, "adjustStock", pa[r].id, NoBody, pa[r].adjustment,
                 errorHandler(PgError(CheckViolation)))
            /\ UNCHANGED products
       ELSE /\ products' = [products EXCEPT ![pa[r].id].stock = pa[r].newStock]
            /\ PaDone(r, "adjustStock", pa[r].id, NoBody, pa[r].adjustment, Ok)
  /\ UNCHANGED <<customers, sales, sale_images, rowLock, stock0, decremented,
                 today, cs, exVars, upVars, warrantyVars, dc, queryVars, authVars, processVars>>

\* The store with products p1 (active) and p2 (deactivated), before any sale.
InitProduct ==
  /\ products = [id \in AllProductIds |->
                   IF id \in ProductIds THEN InitProducts(MaxStock)[id] ELSE NoProduct]
  /\ stock0 = [p \in AllProductIds |-> products[p].stock]
  /\ customers = {"c1"}
  /\ sales = {}
  /\ sale_images = {}
  /\ rowLock = [p \in ProductIds |-> 0]
  /\ decremented = {}
  /\ today = [y |-> 2024, m |-> 1, d |-> 15]
  /\ InitRequests
  /\ InitAuth
  /\ InitWarranty
  /\ InitQuery

\* One createSale request beside the administrative requests.
NextProduct ==
  \/ \E r \in RacingSaleReqs :
       \/ CsGetClient(r)
       \/ CsGetClientFails(r)
       \/ CsBegin(r)
       \/ CsSelectProduct(r)
       \/ CsSelectCustomer(r)
       \/ CsInsertSale(r)
       \/ CsUpdateStock(r)
       \/ CsCommit(r)
       \/ CsQueryFails(r)
       \/ CsRollback(r)
       \/ CsRollbackFails(r)
       \/ CsRelease(r)
  \/ \E r \in AdminReqs :
       \/ CpSelectSku(r)
       \/ CpInsert(r)
       \/ UpdSelectProduct(r)
       \/ UpdCheckSku(r)
       \/ UpdWrite(r)
       \/ DelSelectProduct(r)
       \/ DelWrite(r)
       \/ AdjSelectProduct(r)
       \/ AdjWrite(r)

SpecProduct == InitProduct /\ [][NextProduct]_vars

(***************************************************************************)
(* Properties of the product administration.                               *)
(***************************************************************************)
Inactive(p) == products[p].exists /\ ~products[p].is_active
AdminDone(r, op) == pa[r].op = op /\ pa[r].pc = "done"
\* The step in which request r, of operation op, issues its UPDATE of row p.
AdminWrites(r, op, p) ==
  /\ pa[r].op = op /\ pa[r].id = p
  /\ pa[r].pc \in {"updWrite", "delWrite", "adjWrite"}
  /\ pa'[r].pc = "done"

\* A createSale whose product SELECT finds the product inactive throws NotFound.
InactiveNotSold ==
  \A r \in SaleReqs :
    (cs[r].pc = "selProduct" /\ cs'[r].pc # "selProduct"
       /\ cs'[r].product_id \in ProductIds /\ Inactive(cs'[r].product_id))
    => /\ cs'[r].err = NotFoundError("Producto no encontrado o inactivo")
       /\ cs'[r].pc = "rollback"

\* C13: is_active = false is terminal: no step of any operation makes a
\* deactivated product active again, and a createSale that finds the product
\* deactivated fails with NotFound.
C13_InactiveIsTerminal ==
  [][/\ \A p \in DOMAIN products : Inactive(p) => ~products'[p].is_active
     /\ InactiveNotSold]_vars

\* C13, as the code has it: a deactivated product becomes active again by an
\* updateProduct whose body gives is_active = true, and by nothing else; a
\* createSale that finds the product deactivated fails with NotFound.
C13_InactiveUntilReactivated ==
  [][/\ \A p \in DOMAIN products :
          (Inactive(p) /\ products'[p].is_active)
          => \E r \in AdminReqs : /\ AdminWrites(r, "updateProduct", p)
                                  /\ pa[r].body.is_active = {TRUE}
     /\ InactiveNotSold]_vars

\* C13 witness: product p2, deactivated, was reactivated by an updateProduct
\* and then sold by a createSale.
C13_Witness ==
  /\ products["p2"].is_active
  /\ \E r \in AdminReqs : /\ AdminDone(r, "updateProduct") /\ pa[r].id = "p2"
                          /\ pa[r].body.is_active = {TRUE} /\ pa[r].resp = Ok
  /\ \E r \in RacingSaleReqs : Succeeded(r) /\ cs[r].product_id = "p2"

\* The step is the COMMIT of a createSale that decrements the stock of p by
\* the quantity sold.
SaleDecrements(p) ==
  \E r \in SaleReqs :
    /\ cs[r].pc = "commit" /\ cs'[r].pc = "finally"
    /\ cs[r].product_id = p
    /\ products'[p].stock = products[p].stock - cs[r].quantity

\* C14: the stock of a product changes only by createSale, which decrements
\* it by the quantity sold, and by adjustStock; every other operation,
\* updateProduct and deleteProduct among them, leaves every stock as it is.
C14_StockFrame ==
  [][\A p \in DOMAIN products :
       (products[p].exists /\ products'[p].stock # products[p].stock)
       => \/ SaleDecrements(p)
          \/ \E r \in AdminReqs : AdminWrites(r, "adjustStock", p)]_vars

\* C14, as the code has it: the stock of a product changes only by createSale
\* (decrement by the quantity sold), by adjustStock, and by an updateProduct
\* whose body gives stock; deleteProduct, createProduct and an updateProduct
\* without stock leave the stock of every existing product as it is.
C14_StockFrameWithUpdate ==
  [][\A p \in DOMAIN products :
       (products[p].exists /\ products'[p].stock # products[p].stock)
       => \/ SaleDecrements(p)
          \/ \E r \in AdminReqs : AdminWrites(r, "adjustStock", p)
          \/ \E r \in AdminReqs : /\ AdminWrites(r, "updateProduct", p)
                                  /\ pa[r].body.stock # {}
                                  /\ products'[p].stock = TheOne(pa[r].body.stock)]_vars

\* C14 witness: an updateProduct with stock in its body has set the stock of
\* p1 while no sale and no adjustment touched it, and a deleteProduct has
\* deactivated p1 leaving that stock.
C14_Witness ==
  /\ decremented = {}
  /\ products["p1"].stock = 0 /\ stock0["p1"] = MaxStock
  /\ ~products["p1"].is_active
  /\ \E r1, r2 \in AdminReqs :
       /\ AdminDone(r1, "updateProduct") /\ pa[r1].id = "p1"
       /\ pa[r1].body.stock = {0} /\ pa[r1].resp = Ok
       /\ AdminDone(r2, "deleteProduct") /\ pa[r2].id = "p1" /\ pa[r2].resp = Ok

\* The step in which an adjustStock request reads a stock that its adjustment
\* would make negative.
AdjustsBelowZero(r) ==
  /\ pa[r].pc = "idle" /\ pa'[r].op = "adjustStock"
  /\ pa'[r].id \in ProductIds
  /\ products[pa'[r].id].exists /\ products[pa'[r].id].is_active
  /\ products[pa'[r].id].stock + pa'[r].adjustment < 0

\* C15: under every interleaving of createProduct, updateProduct, adjustStock
\* and createSale the stock of every product is >= 0; an adjustStock whose
\* currentStock + adjustment is negative is answered 400 ValidationError and
\* leaves the stock as it is.
C15_StockNeverNegative ==
  /\ [](\A p \in DOMAIN products : products[p].stock >= 0)
  /\ [][\A r \in AdminReqs :
          AdjustsBelowZero(r)
          => /\ pa'[r].pc = "done"
             /\ pa'[r].resp.status = 400 /\ pa'[r].resp.name = "ValidationError"
             /\ products' = products]_vars

\* C15 witness: an adjustStock was refused for a negative result, and a
\* createSale that had read enough stock was stopped by the CHECK constraint
\* after the stock was lowered under it.
C15_Witness ==
  /\ \E r \in AdminReqs :
       /\ AdminDone(r, "adjustStock") /\ pa[r].resp.status = 400
       /\ pa[r].resp.error.text = "El stock no puede ser negativo"
       /\ products[pa[r].id].stock + pa[r].adjustment < 0
  /\ \E r \in RacingSaleReqs : cs[r].pc = "done" /\ cs[r].err.code = CheckViolation

SkuOf(r) == TheOne(pa[r].body.sku)
SkuInUse(sku) == \E p \in DOMAIN products : products[p].exists /\ products[p].sku = sku

\* C16: a createProduct whose SKU is in use is answered 409 ConflictError and
\* inserts no row, at its SELECT or, when a concurrent request took the SKU
\* after it, at its INSERT; of two createProduct requests with one SKU that
\* nothing else holds exactly one succeeds; no two products share an SKU.
C16_SkuUnique ==
  /\ [](/\ \A p1, p2 \in DOMAIN products :
             (p1 # p2 /\ products[p1].exists /\ products[p2].exists)
             => products[p1].sku # products[p2].sku
        /\ \A r \in AdminReqs :
             AdminDone(r, "createProduct")
             => /\ pa[r].resp.status \in {201, 409}
                /\ pa[r].resp.status = 409
                     => pa[r].resp.name = "ConflictError" /\ ~products[NewId(r)].exists
                /\ pa[r].resp.status = 201
                     => products[NewId(r)].exists /\ products[NewId(r)].sku = SkuOf(r)
        /\ \A r1, r2 \in AdminReqs :
             (r1 # r2 /\ AdminDone(r1, "createProduct") /\ AdminDone(r2, "createProduct")
                /\ SkuOf(r1) = SkuOf(r2)
                /\ \A p \in ProductIds : products[p].sku # SkuOf(r1))
             => Cardinality({r \in {r1, r2} : pa[r].resp.status = 201}) = 1)
  /\ [][\A r \in AdminReqs :
          (pa[r].pc \in {"idle", "cpInsert"} /\ pa'[r].op = "createProduct"
             /\ pa'[r].pc # pa[r].pc /\ SkuInUse(TheOne(pa'[r].body.sku)))
          => /\ pa'[r].pc = "done" /\ pa'[r].resp.status = 409
             /\ pa'[r].resp.name = "ConflictError"
             /\ products' = products]_vars

\* C16 witness: two createProduct requests with the same free SKU both passed
\* the SELECT; one inserted its row (201), the other was stopped by the
\* UNIQUE constraint and answered 409.
C16_Witness ==
  \E r1, r2 \in AdminReqs :
    /\ r1 # r2
    /\ AdminDone(r1, "createProduct") /\ pa[r1].resp.status = 201
    /\ AdminDone(r2, "createProduct") /\ pa[r2].resp.status = 409
    /\ pa[r2].resp.error.text = "Ya existe un recurso con esos datos"
    /\ SkuOf(r1) = SkuOf(r2)
    /\ products[NewId(r1)].exists /\ ~products[NewId(r2)].exists

(***************************************************************************)
(* Warranty query service (services/warrantyService.ts, utils/dateUtils).  *)
(* The process and the database session share one time zone, a fixed       *)
(* offset from UTC; a DATE column is read as the local midnight of the day. *)
(***************************************************************************)
RECURSIVE DaysBeforeMonth(_, _)
DaysBeforeMonth(y, m) ==
  IF m = 1 THEN 0 ELSE DaysBeforeMonth(y, m - 1) + DaysInMonth(y, m - 1)

\* Number of the day in the proleptic calendar (differences are day counts).
DayNumber(dt) ==
  LET py == dt.y - 1
  IN  365 * py + (py \div 4) - (py \div 100) + (py \div 400)
        + DaysBeforeMonth(dt.y, dt.m) + dt.d

\* Date.prototype.setDate(getDate() + n): the date n days later.
AddDays(dt, n) == CHOOSE x \in Dates : DayNumber(x) = DayNumber(dt) + n

\* Math.ceil(a / b) for b > 0
Ceil(a, b) == -((-a) \div b)
\* Math.floor(a / b) for b > 0
Floor(a, b) == a \div b

\* getTime() of the local midnight of a date and of now, in hours.
MidnightHours(dt) == DayNumber(dt) * HoursPerDay
NowHours == DayNumber(today) * HoursPerDay + nowHour

\* toISOString().split('T')[0] of the instant `hour` o'clock local time on
\* date dt: the calendar date of that instant in UTC.
ToISODate(dt, hour) ==
  LET utcHour == hour - utcOffset
  IN  IF utcHour < 0 THEN AddDays(dt, -1)
      ELSE IF utcHour >= HoursPerDay THEN AddDays(dt, 1)
      ELSE dt

\* The day difference rounded down instead of up.
getDaysUntilWarrantyExpiryFloor(warrantyEnd) ==
  Floor(MidnightHours(warrantyEnd) - NowHours, HoursPerDay)

getDaysUntilWarrantyExpiry(warrantyEnd) ==
  Ceil(MidnightHours(warrantyEnd) - NowHours, HoursPerDay)

isWarrantyExpiringSoon(warrantyEnd, daysThreshold) ==
  LET diffDays == Ceil(MidnightHours(warrantyEnd) - NowHours, HoursPerDay)
  IN  diffDays <= daysThreshold /\ diffDays > 0

\* A plain Error: no statusCode, no code, not operational.
Error(message) == [name |-> "Error", message |-> Msg(message, 0, 0), statusCode |-> 0,
                   isOperational |-> FALSE, code |-> None]

\* ORDER BY warranty_end ASC (the order among equal dates is the store's).
RECURSIVE OrderByWarrantyEnd(_)
OrderByWarrantyEnd(rows) ==
  IF rows = {} THEN <<>>
  ELSE LET first == CHOOSE x \in rows :
                      \A z \in rows : DateNum(x.warranty_end) <= DateNum(z.warranty_end)
       IN  <<first>> \o OrderByWarrantyEnd(rows \ {first})

\* getExpiringWarranties: the threshold is built in local time and passed as
\* its ISO (UTC) date; the query joins customers and products and keeps
\* warranty_end BETWEEN CURRENT_DATE AND $1.
getExpiringWarranties(daysThreshold) ==
  LET thresholdDate == AddDays(today, daysThreshold)
      param == ToISODate(thresholdDate, nowHour)
      rows == {row \in sales :
                 /\ row.customer_id \in customers
                 /\ products[row.product_id].exists
                 /\ DateNum(today) <= DateNum(row.warranty_end)
                 /\ DateNum(row.warranty_end) <= DateNum(param)
                 /\ DateNum(row.warranty_end) >= DateNum(today)}
      ordered == OrderByWarrantyEnd(rows)
  IN  [i \in DOMAIN ordered |->
         [sale_id |-> ordered[i].id,
          warranty_end |-> ordered[i].warranty_end,
          days_until_expiry |-> DayNumber(ordered[i].warranty_end) - DayNumber(today)]]

\* checkWarrantyStatus on the row of a sale.
checkWarrantyStatus(row) ==
  LET warrantyEnd == row.warranty_end
      daysUntilExpiry == getDaysUntilWarrantyExpiry(warrantyEnd)
  IN  [isActive |-> daysUntilExpiry > 0,
       isExpiringSoon |-> isWarrantyExpiringSoon(warrantyEnd, DefaultDaysThreshold),
       daysUntilExpiry |-> daysUntilExpiry,
       warrantyEnd |-> warrantyEnd]

\* getWarrantyStatistics on the rows of sales: three conditional counts, and
\* AVG(warranty_period_months) kept as its sum and its count.
getWarrantyStatistics(rows) ==
  [totalActiveWarranties |->
     Cardinality({row \in rows : DateNum(row.warranty_end) > DateNum(today)}),
   expiringSoonCount |->
     Cardinality({row \in rows :
        /\ DayNumber(row.warranty_end) >= DayNumber(today)
        /\ DayNumber(row.warranty_end) <= DayNumber(today) + ExpiringSoonDays}),
   expiredCount |->
     Cardinality({row \in rows : DateNum(row.warranty_end) < DateNum(today)}),
   averageWarrantyPeriod |->
     [sum |-> SumQuantity({[id |-> row.id, quantity |-> row.warranty_period_months] : row \in rows}),
      count |-> Cardinality(rows)]]

\* GET /warranties/statistics
GetWarrantyStatistics ==
  /\ wq = {}
  /\ wq' = {[op |-> "statistics", resp |-> Ok, statistics |-> getWarrantyStatistics(sales)]}
  /\ UNCHANGED <<dbVars, today, cs, exVars, upVars, warrantyVars, adminVars,
                 nowHour, utcOffset, authVars, processVars>>

\* Sale ids a status check may name: the five the table may hold and one more.
CheckIdInputs == 1 .. 6

\* GET /warranties/check/:saleId.  The Error thrown for a missing sale is
\* caught by the service and replaced by another plain Error.
CheckWarrantyStatus ==
  /\ wq = {}
  /\ \E id \in CheckIdInputs :
       wq' = IF ~SaleExists(id)
               THEN {[op |-> "checkStatus", sale_id |-> id,
                      resp |-> errorHandler(Error("Error al verificar estado de garantia"))]}
               ELSE {[op |-> "checkStatus", sale_id |-> id, resp |-> Ok,
                      warranty_status |-> checkWarrantyStatus(SaleRowOf(id))]}
  /\ UNCHANGED <<dbVars, today, cs, exVars, upVars, warrantyVars, adminVars,
                 nowHour, utcOffset, authVars, processVars>>

\* days of GET /warranties/expiring?days=N, as the route admits it.
DaysThresholds == {MinDaysThreshold, DefaultDaysThreshold}

\* GET /warranties/expiring?days=N
GetExpiringWarranties ==
  /\ wq = {}
  /\ \E days \in DaysThresholds :
       wq' = {[op |-> "listExpiring", days_threshold |-> days, resp |-> Ok,
               warranties |-> getExpiringWarranties(days)]}
  /\ UNCHANGED <<dbVars, today, cs, exVars, upVars, warrantyVars, adminVars,
                 nowHour, utcOffset, authVars, processVars>>

\* Sales of p1 to c1 whose warranties end on the day before Feb 15 2024, on
\* that day, on the day after, and 30 and 31 days after it.
WarrantySales ==
  {SaleRow(1, "p1", "c1", "u1", 1, 10000, 1, "", [y |-> 2024, m |-> 1, d |-> 14]),
   SaleRow(2, "p1", "c1", "u1", 1, 10000, 1, "", [y |-> 2024, m |-> 1, d |-> 15]),
   SaleRow(3, "p1", "c1", "u1", 1, 10000, 1, "", [y |-> 2024, m |-> 1, d |-> 16]),
   SaleRow(4, "p1", "c1", "u1", 1, 10000, 2, "", [y |-> 2024, m |-> 1, d |-> 16]),
   SaleRow(5, "p1", "c1", "u1", 1, 10000, 2, "", [y |-> 2024, m |-> 1, d |-> 17])}

\* Hours of the day at which a query runs, and time zones of the process.
Hours == {0, 9, 23}
UtcOffsets == {-6, 0, 2}

\* Any of those sales have been committed; it is Feb 15 2024.
InitWarrantyQuery ==
  /\ today = [y |-> 2024, m |-> 2, d |-> 15]
  /\ sales \in SUBSET WarrantySales
  /\ products = InitProducts(0)
  /\ stock0 = [p \in ProductIds |-> IF p = "p1" THEN Cardinality(sales) ELSE products[p].stock]
  /\ customers = {"c1"}
  /\ sale_images = {}
  /\ rowLock = [p \in ProductIds |-> 0]
  /\ decremented = {row.id : row \in sales}
  /\ InitRequests
  /\ InitAuth
  /\ InitWarranty
  /\ nowHour \in Hours
  /\ utcOffset \in UtcOffsets
  /\ wq = {}

NextWarrantyQuery ==
  \/ GetWarrantyStatistics
  \/ CheckWarrantyStatus
  \/ GetExpiringWarranties

SpecWarrantyQuery == InitWarrantyQuery /\ [][NextWarrantyQuery]_vars

EndsOn(row, dt) == row.warranty_end = dt
DaysLeft(row) == DayNumber(row.warranty_end) - DayNumber(today)

\* C17: in the statistics a sale whose warranty_end is today is counted
\* neither as active nor as expiring soon: both counts are those of the
\* table without the sales that end today.
C17_TodayInNeitherCount ==
  \A a \in wq :
    a.op = "statistics" =>
      LET others == getWarrantyStatistics({row \in sales : ~EndsOn(row, today)})
      IN  /\ a.statistics.totalActiveWarranties = others.totalActiveWarranties
          /\ a.statistics.expiringSoonCount = others.expiringSoonCount

C19_ListExpiring ==
  \A a \in wq :
    a.op = "listExpiring" =>
      /\ {a.warranties[i].sale_id : i \in DOMAIN a.warranties}
           = {row.id : row \in {x \in sales : DaysLeft(x) >= 0 /\ DaysLeft(x) <= a.days_threshold}}
      /\ \A i, j \in DOMAIN a.warranties :
           i < j => DateNum(a.warranties[i].warranty_end) <= DateNum(a.warranties[j].warranty_end)

\* C20: an operation given a sale id that does not resolve answers 404
\* NotFound and changes nothing; checkStatus(saleId) is one of them.
C20_UnknownIdNotFound ==
  \A a \in wq :
    (a.op = "checkStatus" /\ ~SaleExists(a.sale_id)) =>
      a.resp.status = 404 /\ a.resp.name = "NotFoundError"

(***************************************************************************)
(* Authentication (controllers/authController.ts, utils/jwt.ts,            *)
(* middleware/auth.ts).  Time is in seconds.  Every statement runs on the  *)
(* pool, in its own implicit transaction.                                  *)
(***************************************************************************)
\* jwt.sign(payload, secret, {expiresIn}): the claims get iat = the current
\* second and exp = iat + expiresIn; the signature is a function of the
\* claims and the secret, so equal claims give the same token.
Jwt(secret, payload, lifetime) ==
  [secret |-> secret, userId |-> payload.userId, role |-> payload.role,
   iat |-> clock, exp |-> clock + lifetime]

generateAccessToken(payload) == Jwt("access", payload, AccessLifetime)
generateRefreshToken(payload) == Jwt("refresh", payload, RefreshLifetime)

\* jwt.verify under a secret: the outcome of the signature and exp checks.
JwtVerify(token, secret) ==
  IF token.secret # secret THEN "JsonWebTokenError"
  ELSE IF clock >= token.exp THEN "TokenExpiredError"
  ELSE "ok"

\* verifyRefreshToken: the error it throws, NoError when it returns the payload.
verifyRefreshToken(token) ==
  LET v == JwtVerify(token, "refresh")
  IN  IF v = "TokenExpiredError" THEN Error("Token de refresh expirado")
      ELSE IF v = "JsonWebTokenError" THEN Error("Token de refresh invalido")
      ELSE NoError

\* verifyAccessToken: the error it throws, NoError when it returns the payload.
verifyAccessToken(token) ==
  LET v == JwtVerify(token, "access")
  IN  IF v = "TokenExpiredError" THEN Error("Token expirado")
      ELSE IF v = "JsonWebTokenError" THEN Error("Token invalido")
      ELSE NoError

\* hashRefreshToken: the SHA-256 digest of the token, one per token.
hashRefreshToken(token) == [sha256 |-> token]

UnauthorizedError(message) == CustomError("UnauthorizedError", Msg(message, 0, 0), 401)

\* refresh_tokens without its UNIQUE constraint.
RefreshTokensUniqueAbsent(user_id, token_hash) == TRUE

\* refresh_tokens: UNIQUE(user_id, token_hash)
RefreshTokensUnique(user_id, token_hash) ==
  ~\E row \in refresh_tokens : row.user_id = user_id /\ row.token_hash = token_hash

\* The row register and login insert: expires_at = now + 7 days.
RefreshTokenRow(user_id, token) ==
  [user_id |-> user_id, token_hash |-> hashRefreshToken(token),
   expires_at |-> clock + RefreshLifetime]

AuDone(r, op, user, token, resp) ==
  au' = [au EXCEPT ![r] = [AuIdle EXCEPT !.op = op, !.pc = "done", !.user = user,
                             !.token = token, !.resp = resp]]

PayloadOf(u) == [userId |-> u, role |-> users[u].role]

\* register: SELECT id FROM users WHERE email = $1
RegSelectUser(r) ==
  /\ au[r].pc = "idle"
  /\ Cardinality(cookies) < MaxSessions
  /\ \E u \in UserIds, pw \in Passwords :
       IF users[u].exists
         THEN AuDone(r, "register", u, NoToken,
                errorHandler(ConflictError(Msg("Ya existe un usuario con este email", 0, 0))))
         ELSE au' = [au EXCEPT ![r].op = "register", ![r].pc = "regInsertUser",
                       ![r].user = u, ![r].password = pw]
  /\ UNCHANGED <<dbVars, today, cs, exVars, upVars, warrantyVars, adminVars, queryVars,
                 users, refresh_tokens, clock, cookies, revoked, processVars>>

\* register: INSERT INTO users (...) with role 'seller' by default (email is
\* UNIQUE), then the two tokens are signed.
RegInsertUser(r) ==
  /\ au[r].pc = "regInsertUser"
  /\ LET u == au[r].user
     IN  IF users[u].exists
           THEN /\ AuDone(r, "register", u, NoToken, errorHandler(PgError(UniqueViolation)))
                /\ UNCHANGED users
           ELSE /\ users' = [users EXCEPT ![u] = [exists |-> TRUE, password |-> au[r].password,
                                                   role |-> "seller", is_active |-> TRUE]]
                /\ au' = [au EXCEPT ![r].pc = "regInsertToken",
                            ![r].token = generateRefreshToken([userId |-> u, role |-> "seller"])]
  /\ UNCHANGED <<dbVars, today, cs, exVars, upVars, warrantyVars, adminVars, queryVars,
                 refresh_tokens, clock, cookies, revoked, processVars>>

\* INSERT INTO refresh_tokens (user_id, token_hash, expires_at), then the
\* cookie and the response; a constraint violation goes to errorHandler.
InsertRefreshToken(r, op, success) ==
  LET u == au[r].user
      row == RefreshTokenRow(u, au[r].token)
  IN  IF ~RefreshTokensUnique(u, row.token_hash)
        THEN /\ AuDone(r, op, u, au[r].token, errorHandler(PgError(UniqueViolation)))
             /\ UNCHANGED <<refresh_tokens, cookies>>
        ELSE /\ refresh_tokens' = refresh_tokens \cup {row}
             /\ cookies' = cookies \cup {au[r].token}
             /\ AuDone(r, op, u, au[r].token, success)

RegInsertToken(r) ==
  /\ au[r].pc = "regInsertToken"
  /\ InsertRefreshToken(r, "register", Created)
  /\ UNCHANGED <<dbVars, today, cs, exVars, upVars, warrantyVars, adminVars, queryVars,
                 users, clock, revoked, processVars>>

\* login: SELECT ... FROM users WHERE email = $1 AND is_active = true, then
\* verifyPassword, then the two tokens are signed.
LoginSelectUser(r) ==
  /\ au[r].pc = "idle"
  /\ Cardinality(cookies) < MaxSessions
  /\ \E u \in UserIds, pw \in Passwords :
       IF ~(users[u].exists /\ users[u].is_active) \/ users[u].password # pw
         THEN AuDone(r, "login", u, NoToken,
                errorHandler(UnauthorizedError("Credenciales invalidas")))
         ELSE au' = [au EXCEPT ![r].op = "login", ![r].pc = "loginDelete", ![r].user = u,
                       ![r].password = pw,
                       ![r].token = generateRefreshToken(PayloadOf(u))]
  /\ UNCHANGED <<dbVars, today, cs, exVars, upVars, warrantyVars, adminVars, queryVars,
                 users, refresh_tokens, clock, cookies, revoked, processVars>>

\* login: DELETE FROM refresh_tokens WHERE user_id = $1 AND expires_at < NOW()
LoginDeleteExpired(r) ==
  /\ au[r].pc = "loginDelete"
  /\ refresh_tokens' = {row \in refresh_tokens :
                          ~(row.user_id = au[r].user /\ row.expires_at < clock)}
  /\ au' = [au EXCEPT ![r].pc = "loginInsert"]
  /\ UNCHANGED <<dbVars, today, cs, exVars, upVars, warrantyVars, adminVars, queryVars,
                 users, clock, cookies, revoked, processVars>>

LoginInsertToken(r) ==
  /\ au[r].pc = "loginInsert"
  /\ InsertRefreshToken(r, "login", Ok)
  /\ UNCHANGED <<dbVars, today, cs, exVars, upVars, warrantyVars, adminVars, queryVars,
                 users, clock, revoked, processVars>>

\* The rows the refresh query returns: the token's row, unexpired, joined
\* with an active user.
RefreshRows(token) ==
  {row \in refresh_tokens :
     /\ row.token_hash = hashRefreshToken(token)
     /\ row.expires_at > clock
     /\ users[row.user_id].exists /\ users[row.user_id].is_active}

\* Cookies a client may present: none, garbage, or a token once handed out.
CookieInputs == {NoToken, Malformed} \cup cookies

\* refreshAccessToken: the cookie test, verifyRefreshToken, the query, and a
\* new access token.
RefreshAccessToken(r) ==
  /\ au[r].pc = "idle"
  /\ \E refreshToken \in CookieInputs :
       IF refreshToken = NoToken
         THEN AuDone(r, "refresh", None, refreshToken,
                errorHandler(UnauthorizedError("Refresh token no encontrado")))
       ELSE IF verifyRefreshToken(refreshToken) # NoError
         THEN AuDone(r, "refresh", None, refreshToken,
                errorHandler(verifyRefreshToken(refreshToken)))
       ELSE IF RefreshRows(refreshToken) = {}
         THEN AuDone(r, "refresh", None, refreshToken,
                errorHandler(UnauthorizedError("Refresh token invalido o expirado")))
       ELSE AuDone(r, "refresh", refreshToken.userId, refreshToken, Ok)
  /\ UNCHANGED <<dbVars, today, cs, exVars, upVars, warrantyVars, adminVars, queryVars,
                 users, refresh_tokens, clock, cookies, revoked, processVars>>

\* logout: DELETE FROM refresh_tokens WHERE token_hash = $1 when the cookie is
\* present, then 200.
Logout(r) ==
  /\ au[r].pc = "idle"
  /\ \E refreshToken \in CookieInputs :
       /\ refresh_tokens' = IF refreshToken = NoToken THEN refresh_tokens
                            ELSE {row \in refresh_tokens :
                                    row.token_hash # hashRefreshToken(refreshToken)}
       /\ revoked' = IF refreshToken \in cookies THEN revoked \cup {refreshToken}
                     ELSE revoked
       /\ AuDone(r, "logout", None, refreshToken, Ok)
  /\ UNCHANGED <<dbVars, today, cs, exVars, upVars, warrantyVars, adminVars, queryVars,
                 users, clock, cookies, processVars>>

\* changePassword, behind authMiddleware: SELECT password_hash FROM users
\* WHERE id = $1, then verifyPassword on the current password.
ChpSelectUser(r) ==
  /\ au[r].pc = "idle"
  /\ \E u \in UserIds, currentPassword \in Passwords, newPassword \in Passwords :
       IF ~users[u].exists
         THEN AuDone(r, "changePassword", u, NoToken,
                errorHandler(NotFoundError("Usuario no encontrado")))
       ELSE IF users[u].password # currentPassword
         THEN AuDone(r, "changePassword", u, NoToken,
                errorHandler(UnauthorizedError("Contrasena actual incorrecta")))
       ELSE au' = [au EXCEPT ![r].op = "changePassword", ![r].pc = "chpUpdate",
                     ![r].user = u, ![r].password = newPassword]
  /\ UNCHANGED <<dbVars, today, cs, exVars, upVars, warrantyVars, adminVars, queryVars,
                 users, refresh_tokens, clock, cookies, revoked, processVars>>

\* changePassword: UPDATE users SET password_hash = $1 WHERE id = $2
ChpUpdatePassword(r) ==
  /\ au[r].pc = "chpUpdate"
  /\ users' = [users EXCEPT ![au[r].user].password = au[r].password]
  /\ au' = [au EXCEPT ![r].pc = "chpDelete"]
  /\ UNCHANGED <<dbVars, today, cs, exVars, upVars, warrantyVars, adminVars, queryVars,
                 refresh_tokens, clock, cookies, revoked, processVars>>

\* changePassword: DELETE FROM refresh_tokens WHERE user_id = $1, then 200.
ChpDeleteTokens(r) ==
  /\ au[r].pc = "chpDelete"
  /\ refresh_tokens' = {row \in refresh_tokens : row.user_id # au[r].user}
  /\ revoked' = revoked \cup {t \in cookies : t.userId = au[r].user}
  /\ AuDone(r, "changePassword", au[r].user, NoToken, Ok)
  /\ UNCHANGED <<dbVars, today, cs, exVars, upVars, warrantyVars, adminVars, queryVars,
                 users, clock, cookies, processVars>>

\* Authorization headers a client may present: none, garbage, a refresh token,
\* or the access token signed beside a refresh token once handed out.
HeaderInputs ==
  {NoToken, Malformed} \cup cookies \cup {[t EXCEPT !.secret = "access",
                                            !.exp = t.iat + AccessLifetime] : t \in cookies}

\* authMiddleware in front of a protected route: 401 without a token and 401
\* with the message of the error verifyAccessToken throws, else next().
AuthMiddleware(r) ==
  /\ au[r].pc = "idle"
  /\ \E token \in HeaderInputs :
       IF token = NoToken
         THEN AuDone(r, "protected", None, token,
                [status |-> 401, success |-> FALSE,
                 error |-> Msg("Token de acceso requerido", 0, 0), name |-> None])
       ELSE IF verifyAccessToken(token) # NoError
         THEN AuDone(r, "protected", None, token,
                [status |-> 401, success |-> FALSE,
                 error |-> verifyAccessToken(token).message, name |-> None])
       ELSE AuDone(r, "protected", token.userId, token, Ok)
  /\ UNCHANGED <<dbVars, today, cs, exVars, upVars, warrantyVars, adminVars, queryVars,
                 users, refresh_tokens, clock, cookies, revoked, processVars>>

\* The response has been sent: the request slot serves the next request.
AuReturn(r) ==
  /\ au[r].pc = "done"
  /\ au' = [au EXCEPT ![r] = AuIdle]
  /\ UNCHANGED <<dbVars, today, cs, exVars, upVars, warrantyVars, adminVars, queryVars,
                 users, refresh_tokens, clock, cookies, revoked, processVars>>

\* A second passes.
Tick ==
  /\ clock % RefreshLifetime < MaxTicks
  /\ clock' = clock + 1
  /\ UNCHANGED <<dbVars, today, cs, exVars, upVars, warrantyVars, adminVars, queryVars,
                 users, refresh_tokens, cookies, revoked, au, processVars>>

\* Seven days pass.
WeekPasses ==
  /\ clock \div RefreshLifetime < MaxWeeks
  /\ clock' = clock + RefreshLifetime
  /\ UNCHANGED <<dbVars, today, cs, exVars, upVars, warrantyVars, adminVars, queryVars,
                 users, refresh_tokens, cookies, revoked, au, processVars>>

NextAuth ==
  \/ \E r \in AuthReqs :
       \/ RegSelectUser(r)
       \/ RegInsertUser(r)
       \/ RegInsertToken(r)
       \/ LoginSelectUser(r)
       \/ LoginDeleteExpired(r)
       \/ LoginInsertToken(r)
       \/ RefreshAccessToken(r)
       \/ Logout(r)
       \/ ChpSelectUser(r)
       \/ ChpUpdatePassword(r)
       \/ ChpDeleteTokens(r)
       \/ AuthMiddleware(r)
       \/ AuReturn(r)
  \/ Tick
  \/ WeekPasses

SpecAuth == Init /\ [][NextAuth]_vars

(***************************************************************************)
(* Properties of the authentication.                                       *)
(***************************************************************************)
\* The step in which request r is answered.
Answered(r, op) == au[r].pc # "done" /\ au'[r].pc = "done" /\ au'[r].op = op

\* A refresh token that is missing, malformed, expired or unknown.
BadRefreshToken(token) ==
  \/ token = NoToken
  \/ JwtVerify(token, "refresh") # "ok"
  \/ RefreshRows(token) = {}

\* An access token that is missing, invalid or expired.
BadAccessToken(token) == token = NoToken \/ JwtVerify(token, "access") # "ok"

\* C21: a request that presents a missing, invalid or expired credential is
\* answered 401, never 5xx: a protected route given a bad access token, and
\* POST /auth/refresh given a missing, malformed, expired or unknown refresh
\* token.
C21_BadCredentialIs401 ==
  [][\A r \in AuthReqs :
       /\ (Answered(r, "protected") /\ BadAccessToken(au'[r].token))
            => au'[r].resp.status = 401
       /\ (Answered(r, "refresh") /\ BadRefreshToken(au'[r].token))
            => au'[r].resp.status = 401]_vars

\* C25: a login with the right password of an active user is answered 200
\* and adds one refresh-token row, however many unexpired tokens the user
\* holds and however close it is to another login or to the registration.
C25_LoginAddsToken ==
  [][\A r \in AuthReqs :
       (au[r].pc = "loginInsert" /\ au'[r].pc = "done")
         => /\ au'[r].resp.status = 200
            /\ Cardinality(refresh_tokens') = Cardinality(refresh_tokens) + 1]_vars

\* C27: a refresh token that was logged out, or that was issued to a user
\* before that user changed the password, never again obtains an access
\* token (the refresh is not answered 200); changePassword leaves the rows of the other users in place.
C27_RevokedStaysRevoked ==
  [][\A r \in AuthReqs :
       /\ (Answered(r, "refresh") /\ au'[r].token \in revoked)
            => au'[r].resp.status # 200
       /\ (Answered(r, "changePassword") /\ au'[r].resp.status = 200)
            => {row \in refresh_tokens' : row.user_id # au[r].user}
                 = {row \in refresh_tokens : row.user_id # au[r].user}]_vars

(***************************************************************************)
(* Properties of adjustStock and deleteProduct beside createSale.          *)
(***************************************************************************)
\* The adjustment request r made to product p, 0 when it made none.
AdjustmentOf(r, p) ==
  IF AdminDone(r, "adjustStock") /\ pa[r].id = p /\ pa[r].resp.status = 200
    THEN pa[r].adjustment ELSE 0

RECURSIVE SumAdjustments(_, _)
SumAdjustments(reqs, p) ==
  IF reqs = {} THEN 0
  ELSE LET r == CHOOSE x \in reqs : TRUE
       IN  AdjustmentOf(r, p) + SumAdjustments(reqs \ {r}, p)

\* No request is under way, and no updateProduct ran.
OnlyAdjustmentsAndSales ==
  /\ \A r \in RacingSaleReqs : cs[r].pc \in {"idle", "done"}
  /\ \A r \in AdminReqs : pa[r].pc \in {"idle", "done"} /\ pa[r].op # "updateProduct"

\* C28: when adjustStock and createSale requests on a product have all
\* ended, in whatever order their steps ran, its stock is the initial stock
\* plus the adjustments answered 200 minus the quantities of the committed
\* sales.
C28_NoLostStockUpdate ==
  \A p \in ProductIds :
    OnlyAdjustmentsAndSales
      => products[p].stock = stock0[p] + SumAdjustments(AdminReqs, p)
                               - SumQuantity(SalesOf(p))

\* C30: once the deactivation of a product is committed (deleteProduct, or
\* updateProduct with is_active = false), no createSale for that product
\* commits.
C30_NoSaleAfterDeactivation ==
  [][\A r \in RacingSaleReqs :
       (cs[r].pc = "commit" /\ cs'[r].pc = "finally")
         => ~Inactive(cs[r].product_id)]_vars

(***************************************************************************)
(* Sales statistics and sales report (controllers/statsController.ts).     *)
(* Both run behind authMiddleware: req.user holds the userId and the role  *)
(* of the access token.  Timestamps are kept at day resolution.            *)
(***************************************************************************)
\* req.user of the callers: two sellers and an administrator.
Callers ==
  {[userId |-> "u1", userRole |-> "seller"],
   [userId |-> "u2", userRole |-> "seller"],
   [userId |-> "u9", userRole |-> "admin"]}

\* A query without start_date or end_date.
NoDate == [y |-> 0, m |-> 0, d |-> 0]

\* getSalesReport: the seller filter is the seller_id of the query when one
\* is given, else the caller's id when the caller is no administrator.
\* The empty set stands for no filter.
SellerFilter(user, sellerId) ==
  IF sellerId # None THEN {sellerId}
  ELSE IF user.userRole # "admin" /\ user.userId # None THEN {user.userId}
  ELSE {}

\* The WHERE clause getSalesReport builds from the query parameters; a given
\* end_date is a midnight, which only earlier days precede.
ReportWhere(row, user, q) ==
  /\ q.start_date = NoDate \/ DateNum(row.sale_date) >= DateNum(q.start_date)
  /\ q.end_date = NoDate \/ DateNum(row.sale_date) < DateNum(q.end_date)
  /\ SellerFilter(user, q.seller_id) = {} \/ row.seller_id \in SellerFilter(user, q.seller_id)
  /\ q.product_id = None \/ row.product_id = q.product_id
  /\ q.customer_id = None \/ row.customer_id = q.customer_id

SumTotalPrice(rows) ==
  SumQuantity({[id |-> row.id, quantity |-> row.total_price] : row \in rows})

\* getSalesReport on a sales table: the rows of the detail query (joined with
\* products, customers and users) and the summary over the same WHERE clause.
getSalesReport(table, user, q) ==
  LET matching == {row \in table : ReportWhere(row, user, q)}
      joined == {row \in matching : /\ products[row.product_id].exists
                                    /\ row.customer_id \in customers
                                    /\ users[row.seller_id].exists}
  IN  [sales |-> {row.id : row \in joined},
       summary |-> [total_sales |-> Cardinality(matching),
                    total_revenue |-> SumTotalPrice(matching),
                    total_items_sold |-> SumQuantity(matching),
                    unique_customers |-> Cardinality({row.customer_id : row \in matching}),
                    unique_products |-> Cardinality({row.product_id : row \in matching})]]

Quarter(dt) == ((dt.m - 1) \div 3) + 1

\* getSalesStats: the date filter of the period.
DateFilter(row, period) ==
  LET d == row.sale_date
  IN  IF period = "week" THEN DayNumber(d) >= DayNumber(today) - 7
      ELSE IF period = "month" THEN d.m = today.m /\ d.y = today.y
      ELSE IF period = "quarter" THEN Quarter(d) = Quarter(today) /\ d.y = today.y
      ELSE IF period = "year" THEN d.y = today.y
      ELSE TRUE

\* getSalesStats on a sales table: the date filter, restricted to the
\* caller's sales when the caller is no administrator; sales per day, per
\* product, and per seller for an administrator.
getSalesStats(table, user, period) ==
  LET matching == {row \in table :
                     /\ DateFilter(row, period)
                     /\ (user.userRole # "admin" /\ user.userId # None)
                          => row.seller_id = user.userId}
      on(S) == [sales_count |-> Cardinality(S), total_revenue |-> SumTotalPrice(S),
                total_quantity |-> SumQuantity(S)]
  IN  [daily_sales |->
         {[date |-> d] @@ on({row \in matching : row.sale_date = d}) :
            d \in {row.sale_date : row \in matching}},
       top_products |->
         {[product |-> pr] @@ on({row \in matching : row.product_id = pr}) :
            pr \in {row.product_id : row \in matching}},
       top_sellers |->
         IF user.userRole = "admin"
           THEN {[seller |-> u] @@ on({row \in matching : row.seller_id = u}) :
                   u \in {row.seller_id : row \in matching}}
           ELSE {}]

\* Query parameters of the report: seller_id, product_id and the dates.
ReportQueries ==
  [start_date : {NoDate, [y |-> 2024, m |-> 1, d |-> 1]},
   end_date : {NoDate, [y |-> 2024, m |-> 2, d |-> 15]},
   seller_id : {None, "u1", "u2"},
   product_id : {None, "p1"},
   customer_id : {None}]
Periods == {"week", "month", "quarter", "year"}

\* GET /reports/sales
GetSalesReport ==
  /\ wq = {}
  /\ \E user \in Callers, q \in ReportQueries :
       wq' = {[op |-> "salesReport", user |-> user, query |-> q, resp |-> Ok,
               report |-> getSalesReport(sales, user, q)]}
  /\ UNCHANGED <<dbVars, today, cs, exVars, upVars, warrantyVars, adminVars,
                 nowHour, utcOffset, authVars, processVars>>

\* GET /stats/sales?period=...
GetSalesStats ==
  /\ wq = {}
  /\ \E user \in Callers, period \in Periods :
       wq' = {[op |-> "salesStats", user |-> user, period |-> period, resp |-> Ok,
               stats |-> getSalesStats(sales, user, period)]}
  /\ UNCHANGED <<dbVars, today, cs, exVars, upVars, warrantyVars, adminVars,
                 nowHour, utcOffset, authVars, processVars>>

\* Sales of the two sellers, in the week before Feb 15 2024, earlier in the
\* quarter, and in the year before.
ReportSales ==
  {SaleRow(1, "p1", "c1", "u1", 1, 10000, 12, "", [y |-> 2024, m |-> 2, d |-> 14]),
   SaleRow(2, "p1", "c1", "u2", 2, 10000, 12, "", [y |-> 2024, m |-> 2, d |-> 14]),
   SaleRow(3, "p2", "c1", "u2", 1, 250, 12, "", [y |-> 2024, m |-> 1, d |-> 5]),
   SaleRow(4, "p1", "c1", "u1", 1, 250, 12, "", [y |-> 2023, m |-> 11, d |-> 20])}

\* Any of those sales have been committed; both sellers are registered.
InitReport ==
  /\ today = [y |-> 2024, m |-> 2, d |-> 15]
  /\ sales \in SUBSET ReportSales
  /\ products = InitProducts(0)
  /\ stock0 = [p \in ProductIds |-> products[p].stock + SumQuantity(SalesOf(p))]
  /\ customers = {"c1"}
  /\ sale_images = {}
  /\ rowLock = [p \in ProductIds |-> 0]
  /\ decremented = {row.id : row \in sales}
  /\ InitRequests
  /\ InitWarranty
  /\ InitQuery
  /\ users = [u \in UserIds |-> [exists |-> TRUE, password |-> "pw-a", role |-> "seller",
                                is_active |-> TRUE]]
  /\ refresh_tokens = {}
  /\ clock = 0
  /\ cookies = {}
  /\ revoked = {}
  /\ au = [r \in AuthReqs |-> AuIdle]

NextReport ==
  \/ GetSalesReport
  \/ GetSalesStats

SpecReport == InitReport /\ [][NextReport]_vars

OwnSales(user) == {row \in sales : row.seller_id = user.userId}
Unrestricted == [userId |-> None, userRole |-> "admin"]

\* C22: in the sales report and the sales statistics a caller with role
\* seller is shown only the sales whose seller is the caller, whatever the
\* query parameters (seller_id included): the answer is the one computed on
\* the caller's own sales; an administrator is shown all sales.
C22_SellerSeesOwnSales ==
  \A a \in wq :
    /\ (a.op = "salesReport" /\ a.user.userRole = "seller")
         => /\ a.report.sales \subseteq {row.id : row \in OwnSales(a.user)}
            /\ a.report = getSalesReport(OwnSales(a.user), Unrestricted,
                                         [a.query EXCEPT !.seller_id = None])
    /\ (a.op = "salesStats" /\ a.user.userRole = "seller")
         => /\ a.stats.top_sellers = {}
            /\ a.stats.daily_sales
                 = getSalesStats(OwnSales(a.user), Unrestricted, a.period).daily_sales
            /\ a.stats.top_products
                 = getSalesStats(OwnSales(a.user), Unrestricted, a.period).top_products
    /\ (a.op = "salesReport" /\ a.user.userRole = "admin")
         => a.report = getSalesReport(sales, Unrestricted, a.query)
    /\ (a.op = "salesStats" /\ a.user.userRole = "admin")
         => a.stats = getSalesStats(sales, Unrestricted, a.period)

(***************************************************************************)
(* The sales router as a whole: POST /, POST /:id/images and               *)
(* POST /:id/extract-serial are its only routes that write; no route       *)
(* updates or deletes a sale, and extendWarranty of the warranty service   *)
(* has no caller.  One request of each kind runs against an empty store.   *)
(***************************************************************************)
RouterReqs == {1}

NextSales ==
  \/ \E r \in RouterReqs :
       \/ CsGetClient(r)
       \/ CsGetClientFails(r)
       \/ CsBegin(r)
       \/ CsSelectProduct(r)
       \/ CsSelectCustomer(r)
       \/ CsInsertSale(r)
       \/ CsUpdateStock(r)
       \/ CsCommit(r)
       \/ CsQueryFails(r)
       \/ CsRollback(r)
       \/ CsRollbackFails(r)
       \/ CsRelease(r)
  \/ \E r \in RouterReqs :
       \/ ExSelectSale(r)
       \/ ExOcr(r)
       \/ ExUploadImage(r)
       \/ ExInsertImage(r)
       \/ ExUpdateSerial(r)
  \/ \E r \in RouterReqs :
       \/ UpSelectSale(r)
       \/ UpInsertImage(r)
       \/ UpRespond(r)
       \/ UpFileFails(r)
       \/ UpInsertAfterError(r)

SpecSales == Init /\ [][NextSales]_vars

\* C23: once a sale row exists no step changes its product, customer,
\* seller, quantity, unit price, total price, sale date or warranty window;
\* the total price stays quantity * unit_price; serial_number is the only
\* field a later step may set.
C23_SaleFieldsImmutable ==
  [][\A row \in sales : \A after \in sales' :
       after.id = row.id
         => /\ [after EXCEPT !.serial_number = row.serial_number] = row
            /\ after.total_price = row.quantity * row.unit_price]_vars

\* A sale committed by createSale had its serial number set by extractSerial.
C23_Witness ==
  \E r \in RouterReqs, row \in sales :
    /\ cs[r].pc = "done"
    /\ ex[r].pc = "done"
    /\ ex[r].sale_id = row.id
    /\ row.serial_number \in ExtractedSerials

(***************************************************************************)
(* Shutdown of the process (server.ts).  server.close() stops the server   *)
(* from accepting connections at once and emits 'close' when the open      *)
(* connections have ended; a callback given to close() runs at 'close',    *)
(* also when the server was no longer listening.  pool.end() resolves when *)
(* the clients of the pool are closed and rejects when called on a pool    *)
(* that is ending.  The forced-exit timer fires 10 s after the signal.     *)
(***************************************************************************)
storeVars ==
  <<dbVars, today, cs, exVars, upVars, warrantyVars, adminVars, queryVars, authVars>>

\* A client connects and its request is in flight.
Accept ==
  /\ exitCode = None
  /\ server = "listening"
  /\ connections < MaxConnections
  /\ connections' = connections + 1
  /\ UNCHANGED <<storeVars, clients, server, pool, signals, closeCallbacks, forceTimers, exitCode>>

\* A connection ends: its request was answered, or the peer gave up while
\* the handler still runs.
ConnectionEnds ==
  /\ exitCode = None
  /\ connections > 0
  /\ connections' = connections - 1
  /\ UNCHANGED <<storeVars, clients, server, pool, signals, closeCallbacks, forceTimers, exitCode>>

\* A request in flight takes a client of the pool (pool.connect()).
Checkout ==
  /\ exitCode = None
  /\ pool = "open"
  /\ clients < connections
  /\ clients' = clients + 1
  /\ UNCHANGED <<storeVars, server, connections, pool, signals, closeCallbacks, forceTimers, exitCode>>

\* A handler releases its client (client.release()).
Release ==
  /\ exitCode = None
  /\ clients > 0
  /\ clients' = clients - 1
  /\ UNCHANGED <<storeVars, server, connections, pool, signals, closeCallbacks, forceTimers, exitCode>>

\* SIGTERM or SIGINT: gracefulShutdown calls server.close(callback) and arms
\* the forced-exit timer.
GracefulShutdown ==
  /\ exitCode = None
  /\ signals < MaxSignals
  /\ signals' = signals + 1
  /\ server' = IF server = "listening" THEN "closing" ELSE server
  /\ closeCallbacks' = Append(closeCallbacks, "registered")
  /\ forceTimers' = forceTimers + 1
  /\ UNCHANGED <<storeVars, clients, connections, pool, exitCode>>

\* pool.end() as called by the i-th callback run at 'close': the first call
\* starts ending the pool, a later call rejects.
closePool(i, registered) ==
  IF pool = "open" /\ i = registered[1] THEN "awaitEnd" ELSE "rejected"

\* 'close': the connections have ended; every registered callback runs up to
\* its await closePool().
ServerClose ==
  /\ exitCode = None
  /\ server # "listening"
  /\ connections = 0
  /\ LET registered == SelectSeq([i \in 1 .. Len(closeCallbacks) |-> i],
                                 LAMBDA i : closeCallbacks[i] = "registered")
     IN  /\ registered # <<>>
         /\ closeCallbacks' = [i \in 1 .. Len(closeCallbacks) |->
                                 IF closeCallbacks[i] = "registered"
                                   THEN closePool(i, registered)
                                   ELSE closeCallbacks[i]]
         /\ pool' = IF pool = "open" THEN "ending" ELSE pool
  /\ server' = "closed"
  /\ UNCHANGED <<storeVars, clients, connections, signals, forceTimers, exitCode>>

\* The clients of the pool are released and closed: pool.end() resolves.
PoolEnded ==
  /\ exitCode = None
  /\ pool = "ending"
  /\ clients = 0
  /\ pool' = "ended"
  /\ UNCHANGED <<storeVars, clients, server, connections, signals, closeCallbacks, forceTimers, exitCode>>

\* await closePool() returned: process.exit(0).
ExitGraceful ==
  /\ exitCode = None
  /\ pool = "ended"
  /\ \E i \in 1 .. Len(closeCallbacks) : closeCallbacks[i] = "awaitEnd"
  /\ exitCode' = "exit(0)"
  /\ UNCHANGED <<storeVars, clients, server, connections, pool, signals, closeCallbacks, forceTimers>>

\* await closePool() threw: the catch block runs process.exit(1).
ExitOnError ==
  /\ exitCode = None
  /\ \E i \in 1 .. Len(closeCallbacks) : closeCallbacks[i] = "rejected"
  /\ exitCode' = "exit(1)"
  /\ UNCHANGED <<storeVars, clients, server, connections, pool, signals, closeCallbacks, forceTimers>>

\* A forced-exit timer fires: process.exit(1).
ForceExit ==
  /\ exitCode = None
  /\ forceTimers > 0
  /\ forceTimers' = forceTimers - 1
  /\ exitCode' = "exit(1)"
  /\ UNCHANGED <<storeVars, clients, server, connections, pool, signals, closeCallbacks>>

NextShutdown ==
  \/ Accept
  \/ ConnectionEnds
  \/ Checkout
  \/ Release
  \/ GracefulShutdown
  \/ ServerClose
  \/ PoolEnded
  \/ ExitGraceful
  \/ ExitOnError
  \/ ForceExit

SpecShutdown == InitAfterSales /\ [][NextShutdown]_vars

\* The event loop runs every callback and timer that is due.
SpecShutdownFair ==
  /\ SpecShutdown
  /\ WF_vars(ServerClose)
  /\ WF_vars(ExitGraceful)
  /\ WF_vars(ExitOnError)
  /\ WF_vars(ForceExit)

\* C24: from the first signal on no connection is accepted; the pool starts
\* closing only when the HTTP server has closed with no connection left; and
\* the process exits only with the pool closed or by a forced-exit timer.
C24_GracefulShutdown ==
  [][/\ signals > 0 => connections' <= connections
     /\ (pool = "open" /\ pool' # "open") => (server' = "closed" /\ connections = 0)
     /\ (exitCode = None /\ exitCode' # None)
          => (pool = "ended" \/ forceTimers' < forceTimers)]_vars

\* The process exits after a signal.
C24_AlwaysTerminates == (signals > 0) ~> (exitCode # None)

====
